---- MODULE Spec2Model ----
(***************************************************************************)
(* Selection & generation pipeline of launchpad (package ai, package cli). *)
(*                                                                         *)
(* Strings are sequences of tokens: "asset.palette.heroui-blue" is         *)
(* <<"asset.", "palette.", "heroui-blue">>.  Concatenation, HasPrefix,     *)
(* TrimPrefix, Index and Join are the sequence operations of the Go        *)
(* strings package at token granularity; every string of the model has     *)
(* one tokenisation, chosen so that each prefix the code tests ends on a   *)
(* token boundary.                                                         *)
(*                                                                         *)
(* Confidence is counted in hundredths (0.72 is 72).                       *)
(***************************************************************************)
EXTENDS Integers, Sequences, FiniteSets, TLC

\* ------------------------------------------------------------------ bounds
\* longest AddonIDs list handed directly to the validator / GenerateFiles
MaxAddons == 3
\* longest AssetIDs list handed directly to the validator / GenerateFiles
MaxAssets == 3

\* ----------------------------------------------------------------- strings
EmptyStr == << >>

\* strings.HasPrefix
HasPrefix(s, p) == Len(p) <= Len(s) /\ SubSeq(s, 1, Len(p)) = p

\* strings.TrimPrefix
TrimPrefix(s, p) == IF HasPrefix(s, p) THEN SubSeq(s, Len(p) + 1, Len(s)) ELSE s

\* strings.Index, 1-based; 0 when p does not occur in s (Go: -1)
Index(s, p) ==
    LET hits == {i \in 1..(Len(s) - Len(p) + 1) : SubSeq(s, i, i + Len(p) - 1) = p}
    IN IF hits = {} THEN 0 ELSE CHOOSE i \in hits : \A j \in hits : i <= j

\* strings.Contains
Contains(s, p) == Len(p) = 0 \/ Index(s, p) # 0

\* strings.Join
RECURSIVE Join(_, _)
Join(elems, sep) ==
    IF Len(elems) = 0 THEN EmptyStr
    ELSE IF Len(elems) = 1 THEN elems[1]
    ELSE elems[1] \o sep \o Join(Tail(elems), sep)

\* the elements of a list, as a set
Range(list) == {list[i] : i \in DOMAIN list}

\* all lists over the set S of length at most n
ListsUpTo(S, n) == UNION {[1..k -> S] : k \in 0..n}

\* ------------------------------------------------------------ ID constants
ProfilePrefix == <<"profile.">>
AddonPrefix == <<"addon.">>
PalettePrefix == <<"asset.", "palette.">>
FontsPrefix == <<"asset.", "fonts.">>
LintPrefix == <<"asset.", "lint">>
TestingPrefix == <<"asset.", "testing.">>

DataIntensive == <<"data-intensive">>
FrontendCraft == <<"frontend-craft">>

PaletteHeroui == <<"asset.", "palette.", "heroui-blue">>
PaletteObsidian == <<"asset.", "palette.", "obsidian-indigo">>
FontsInter == <<"asset.", "fonts.", "inter-jetbrains">>
FontsGeist == <<"asset.", "fonts.", "geist">>
LintStrict == <<"asset.", "lint", ".strict">>
LintRelaxed == <<"asset.", "lint", "ing.relaxed">>
TestingPragmatic == <<"asset.", "testing.", "pragmatic">>
TestingComprehensive == <<"asset.", "testing.", "comprehensive">>
ServerPatterns == <<"asset.", "server.", "patterns">>

\* --------------------------------------------------------------- registry
\* scaffold.Profiles: ID and HasUI of every registered profile
Profiles ==
    << [ID |-> <<"elixir-phoenix">>,       HasUI |-> TRUE],
       [ID |-> <<"typescript-sveltekit">>, HasUI |-> TRUE],
       [ID |-> <<"ruby-rails">>,           HasUI |-> TRUE],
       [ID |-> <<"go-service">>,           HasUI |-> FALSE],
       [ID |-> <<"rust-axum">>,            HasUI |-> FALSE],
       [ID |-> <<"dotnet-api">>,           HasUI |-> FALSE],
       [ID |-> <<"java-spring">>,          HasUI |-> FALSE],
       [ID |-> <<"python-fastapi">>,       HasUI |-> FALSE],
       [ID |-> <<"dart-flutter">>,         HasUI |-> TRUE],
       [ID |-> <<"typescript-nextjs">>,    HasUI |-> TRUE],
       [ID |-> <<"typescript-fastify">>,   HasUI |-> FALSE],
       [ID |-> <<"python-django">>,        HasUI |-> TRUE],
       [ID |-> <<"laravel">>,              HasUI |-> TRUE] >>

\* scaffold.ProfileIDs, as a set
ProfileIDs == {Profiles[i].ID : i \in DOMAIN Profiles}

\* scaffold.FindProfile; the profile is looked up by ID, first match
FindProfile(id) ==
    LET hits == {i \in DOMAIN Profiles : Profiles[i].ID = id}
    IN IF hits = {} THEN [found |-> FALSE, HasUI |-> FALSE]
       ELSE [found |-> TRUE,
             HasUI |-> Profiles[CHOOSE i \in hits : \A j \in hits : i <= j].HasUI]

\* ---------------------------------------------------------------- catalog
\* catalog(): ID and Category of every entry, in declaration order
catalog ==
    << [ID |-> <<"core.", "copilot">>,       Category |-> "core"],
       [ID |-> <<"core.", "architecture">>,  Category |-> "practices"],
       [ID |-> <<"core.", "agents">>,        Category |-> "collaboration"],
       [ID |-> <<"core.", "design-system">>, Category |-> "design"],
       [ID |-> <<"profile.", "elixir-phoenix">>,       Category |-> "framework"],
       [ID |-> <<"profile.", "typescript-sveltekit">>, Category |-> "framework"],
       [ID |-> <<"profile.", "ruby-rails">>,           Category |-> "framework"],
       [ID |-> <<"profile.", "typescript-nextjs">>,    Category |-> "framework"],
       [ID |-> <<"profile.", "typescript-fastify">>,   Category |-> "framework"],
       [ID |-> <<"profile.", "go-service">>,           Category |-> "framework"],
       [ID |-> <<"profile.", "dotnet-api">>,           Category |-> "framework"],
       [ID |-> <<"profile.", "python-fastapi">>,       Category |-> "framework"],
       [ID |-> <<"profile.", "python-django">>,        Category |-> "framework"],
       [ID |-> <<"profile.", "dart-flutter">>,         Category |-> "framework"],
       [ID |-> <<"profile.", "rust-axum">>,            Category |-> "framework"],
       [ID |-> <<"profile.", "laravel">>,              Category |-> "framework"],
       [ID |-> <<"addon.", "data-intensive">>, Category |-> "architecture"],
       [ID |-> <<"addon.", "frontend-craft">>, Category |-> "ui"],
       [ID |-> PaletteHeroui,    Category |-> "palette"],
       [ID |-> PaletteObsidian,  Category |-> "palette"],
       [ID |-> FontsInter,       Category |-> "fonts"],
       [ID |-> LintStrict,       Category |-> "linting"],
       [ID |-> TestingPragmatic, Category |-> "testing"] >>

\* catalogMap(): the catalog keyed by ID (a later entry overwrites an earlier one)
catalogMap ==
    LET ids == {catalog[i].ID : i \in DOMAIN catalog}
    IN [id \in ids |->
          catalog[CHOOSE i \in DOMAIN catalog :
                     /\ catalog[i].ID = id
                     /\ \A j \in DOMAIN catalog : catalog[j].ID = id => j <= i]]

\* ------------------------------------------------------------- validator
\* validProfile map of ValidateSelectionCompatibility
validProfile ==
    { <<"elixir-phoenix">>, <<"typescript-sveltekit">>, <<"ruby-rails">>,
      <<"typescript-nextjs">>, <<"typescript-fastify">>, <<"go-service">>,
      <<"dotnet-api">>, <<"python-fastapi">>, <<"python-django">>,
      <<"dart-flutter">>, <<"rust-axum">>, <<"laravel">> }

BothAddons == {FrontendCraft, DataIntensive}

\* a table that lets every profile use both addons
allowedAddonsByProfile_BothEverywhere == [p \in validProfile |-> BothAddons]

\* allowedAddonsByProfile map of ValidateSelectionCompatibility
allowedAddonsByProfile ==
    [p \in validProfile |->
        CASE p = <<"elixir-phoenix">>       -> BothAddons
          [] p = <<"typescript-sveltekit">> -> BothAddons
          [] p = <<"ruby-rails">>           -> BothAddons
          [] p = <<"typescript-nextjs">>    -> BothAddons
          [] p = <<"typescript-fastify">>   -> {DataIntensive}
          [] p = <<"go-service">>           -> {DataIntensive}
          [] p = <<"dotnet-api">>           -> {DataIntensive}
          [] p = <<"python-fastapi">>       -> {DataIntensive}
          [] p = <<"python-django">>        -> BothAddons
          [] p = <<"dart-flutter">>         -> {FrontendCraft}
          [] p = <<"rust-axum">>            -> {DataIntensive}
          [] p = <<"laravel">>              -> BothAddons]

IssueProfileRequired == <<"profile_id is required">>
IssueProfileUnsupported == <<"profile_id is not supported by this Launchpad build">>
IssueDuplicateAddon == <<"duplicate addon_id: ">>
IssueAddonIncompatible == <<"addon_id not compatible with selected profile: ">>
IssueDuplicateAsset == <<"duplicate asset_id: ">>
IssuePalette == <<"only one palette asset may be selected">>
IssueFont == <<"only one font asset may be selected">>
IssueLint == <<"only one linting asset may be selected">>
IssueTesting == <<"only one testing asset may be selected">>

\* a profile block that only rejects the empty ProfileID
profileIssues_RequiredOnly(selection) ==
    IF selection.ProfileID = EmptyStr THEN <<IssueProfileRequired>> ELSE << >>

\* the profile block of ValidateSelectionCompatibility
profileIssues(selection) ==
    IF selection.ProfileID = EmptyStr THEN <<IssueProfileRequired>>
    ELSE IF selection.ProfileID \notin validProfile THEN <<IssueProfileUnsupported>>
    ELSE << >>

\* the addon loop of ValidateSelectionCompatibility, from entry i on
RECURSIVE addonLoop(_, _, _, _)
addonLoop(selection, i, seenAddons, issues) ==
    IF i > Len(selection.AddonIDs) THEN issues
    ELSE LET addonID == selection.AddonIDs[i] IN
         IF addonID = EmptyStr
         THEN addonLoop(selection, i + 1, seenAddons, issues)
         ELSE IF addonID \in seenAddons
         THEN addonLoop(selection, i + 1, seenAddons,
                        Append(issues, IssueDuplicateAddon \o addonID))
         ELSE LET ok == selection.ProfileID \in DOMAIN allowedAddonsByProfile
                  allowed == IF ok THEN allowedAddonsByProfile[selection.ProfileID] ELSE {}
              IN addonLoop(selection, i + 1, seenAddons \cup {addonID},
                           IF ~ok \/ addonID \notin allowed
                           THEN Append(issues, IssueAddonIncompatible \o addonID)
                           ELSE issues)

\* the asset loop of ValidateSelectionCompatibility, from entry i on; st holds
\* seenAssets, the four category counters and the issues so far
RECURSIVE assetLoop(_, _, _)
assetLoop(selection, i, st) ==
    IF i > Len(selection.AssetIDs) THEN st
    ELSE LET assetID == selection.AssetIDs[i] IN
         IF assetID = EmptyStr THEN assetLoop(selection, i + 1, st)
         ELSE IF assetID \in st.seenAssets
         THEN assetLoop(selection, i + 1,
                        [st EXCEPT !.issues = Append(@, IssueDuplicateAsset \o assetID)])
         ELSE LET seen == [st EXCEPT !.seenAssets = @ \cup {assetID}] IN
              assetLoop(selection, i + 1,
                  IF HasPrefix(assetID, PalettePrefix)
                  THEN [seen EXCEPT !.paletteCount = @ + 1]
                  ELSE IF HasPrefix(assetID, FontsPrefix)
                  THEN [seen EXCEPT !.fontCount = @ + 1]
                  ELSE IF HasPrefix(assetID, LintPrefix)
                  THEN [seen EXCEPT !.lintCount = @ + 1]
                  ELSE IF HasPrefix(assetID, TestingPrefix)
                  THEN [seen EXCEPT !.testingCount = @ + 1]
                  ELSE seen)

\* a validator that drops the duplicate reports after the first of each list
ValidateSelectionCompatibility_OneDuplicateIssue(selection) ==
    LET afterAddons == addonLoop(selection, 1, {}, profileIssues(selection))
        st == assetLoop(selection, 1,
                  [seenAssets |-> {}, paletteCount |-> 0, fontCount |-> 0,
                   lintCount |-> 0, testingCount |-> 0, issues |-> afterAddons])
        full == st.issues
        firstOf(prefix) == {i \in DOMAIN full : /\ HasPrefix(full[i], prefix)
                                                /\ \A j \in 1..(i - 1) : ~HasPrefix(full[j], prefix)}
        kept == {i \in DOMAIN full :
                    \/ ~HasPrefix(full[i], IssueDuplicateAddon) /\ ~HasPrefix(full[i], IssueDuplicateAsset)
                    \/ i \in firstOf(IssueDuplicateAddon) \cup firstOf(IssueDuplicateAsset)}
        RECURSIVE pick(_)
        pick(i) == IF i > Len(full) THEN << >>
                   ELSE (IF i \in kept THEN <<full[i]>> ELSE << >>) \o pick(i + 1)
    IN pick(1)
         \o (IF st.paletteCount > 1 THEN <<IssuePalette>> ELSE << >>)
         \o (IF st.fontCount > 1 THEN <<IssueFont>> ELSE << >>)
         \o (IF st.lintCount > 1 THEN <<IssueLint>> ELSE << >>)
         \o (IF st.testingCount > 1 THEN <<IssueTesting>> ELSE << >>)

\* a validator whose category caps allow two entries
ValidateSelectionCompatibility_CapOfTwo(selection) ==
    LET afterAddons == addonLoop(selection, 1, {}, profileIssues(selection))
        st == assetLoop(selection, 1,
                  [seenAssets |-> {}, paletteCount |-> 0, fontCount |-> 0,
                   lintCount |-> 0, testingCount |-> 0, issues |-> afterAddons])
    IN st.issues
         \o (IF st.paletteCount > 2 THEN <<IssuePalette>> ELSE << >>)
         \o (IF st.fontCount > 2 THEN <<IssueFont>> ELSE << >>)
         \o (IF st.lintCount > 2 THEN <<IssueLint>> ELSE << >>)
         \o (IF st.testingCount > 2 THEN <<IssueTesting>> ELSE << >>)

\* ValidateSelectionCompatibility: the list of issue strings, in report order
ValidateSelectionCompatibility(selection) ==
    LET afterAddons == addonLoop(selection, 1, {}, profileIssues(selection))
        st == assetLoop(selection, 1,
                  [seenAssets |-> {}, paletteCount |-> 0, fontCount |-> 0,
                   lintCount |-> 0, testingCount |-> 0, issues |-> afterAddons])
    IN st.issues
         \o (IF st.paletteCount > 1 THEN <<IssuePalette>> ELSE << >>)
         \o (IF st.fontCount > 1 THEN <<IssueFont>> ELSE << >>)
         \o (IF st.lintCount > 1 THEN <<IssueLint>> ELSE << >>)
         \o (IF st.testingCount > 1 THEN <<IssueTesting>> ELSE << >>)

\* --------------------------------------------------------------- resolver
\* a base list without the design system
base_WithoutDesignSystem ==
    << <<"core.", "copilot">>, <<"core.", "architecture">>, <<"core.", "agents">> >>

\* base list of resolveContextAssets
base ==
    << <<"core.", "copilot">>, <<"core.", "architecture">>,
       <<"core.", "agents">>, <<"core.", "design-system">> >>

\* the addon loop of resolveContextAssets: each addon ID, prefixed if it is not
prefixedAddons(addonIDs) ==
    [i \in DOMAIN addonIDs |->
        IF HasPrefix(addonIDs[i], AddonPrefix) THEN addonIDs[i]
        ELSE AddonPrefix \o addonIDs[i]]

\* the combined ID list resolveContextAssets walks
resolvedIDs(selection) ==
    base
      \o (IF selection.ProfileID # EmptyStr
          THEN << IF HasPrefix(selection.ProfileID, ProfilePrefix)
                  THEN selection.ProfileID
                  ELSE ProfilePrefix \o selection.ProfileID >>
          ELSE << >>)
      \o prefixedAddons(selection.AddonIDs)
      \o selection.AssetIDs

\* a walk that passes over an ID the catalog lacks
RECURSIVE resolveWalk_SkipUnknown(_, _, _, _)
resolveWalk_SkipUnknown(ids, i, seen, resolved) ==
    IF i > Len(ids) THEN [ok |-> TRUE, assets |-> resolved, unknown |-> EmptyStr]
    ELSE LET id == ids[i] IN
         IF id = EmptyStr \/ id \in seen \/ id \notin DOMAIN catalogMap
         THEN resolveWalk_SkipUnknown(ids, i + 1, seen, resolved)
         ELSE resolveWalk_SkipUnknown(ids, i + 1, seen \cup {id},
                                      Append(resolved, catalogMap[id]))

\* a walk that resolves an ID each time it meets it
RECURSIVE resolveWalk_KeepRepeats(_, _, _, _)
resolveWalk_KeepRepeats(ids, i, seen, resolved) ==
    IF i > Len(ids) THEN [ok |-> TRUE, assets |-> resolved, unknown |-> EmptyStr]
    ELSE LET id == ids[i] IN
         IF id = EmptyStr THEN resolveWalk_KeepRepeats(ids, i + 1, seen, resolved)
         ELSE IF id \notin DOMAIN catalogMap
         THEN [ok |-> FALSE, assets |-> << >>, unknown |-> id]
         ELSE resolveWalk_KeepRepeats(ids, i + 1, seen, Append(resolved, catalogMap[id]))

\* the walk of resolveContextAssets over ids, from entry i on
RECURSIVE resolveWalk(_, _, _, _)
resolveWalk(ids, i, seen, resolved) ==
    IF i > Len(ids) THEN [ok |-> TRUE, assets |-> resolved, unknown |-> EmptyStr]
    ELSE LET id == ids[i] IN
         IF id = EmptyStr \/ id \in seen THEN resolveWalk(ids, i + 1, seen, resolved)
         ELSE IF id \notin DOMAIN catalogMap
         THEN [ok |-> FALSE, assets |-> << >>, unknown |-> id]
         ELSE resolveWalk(ids, i + 1, seen \cup {id}, Append(resolved, catalogMap[id]))

\* resolveContextAssets: ok with the resolved assets, or the first unknown ID
resolveContextAssets(selection) == resolveWalk(resolvedIDs(selection), 1, {}, << >>)

\* ------------------------------------------------------------ text helpers
\* the whitespace tokens strings.TrimSpace removes
Whitespace == {" ", "\n"}

\* strings.TrimSpace
RECURSIVE TrimLeft(_)
TrimLeft(s) == IF Len(s) > 0 /\ s[1] \in Whitespace THEN TrimLeft(Tail(s)) ELSE s

RECURSIVE TrimRight(_)
TrimRight(s) ==
    IF Len(s) > 0 /\ s[Len(s)] \in Whitespace THEN TrimRight(SubSeq(s, 1, Len(s) - 1)) ELSE s

TrimSpace(s) == TrimRight(TrimLeft(s))

\* strings.TrimSuffix
TrimSuffix(s, p) ==
    IF Len(p) <= Len(s) /\ SubSeq(s, Len(s) - Len(p) + 1, Len(s)) = p
    THEN SubSeq(s, 1, Len(s) - Len(p)) ELSE s

\* strings.LastIndex, 1-based; 0 when p does not occur in s
LastIndex(s, p) ==
    LET hits == {i \in 1..(Len(s) - Len(p) + 1) : SubSeq(s, i, i + Len(p) - 1) = p}
    IN IF hits = {} THEN 0 ELSE CHOOSE i \in hits : \A j \in hits : j <= i

\* strings.ToUpper on one token
UpperToken(t) ==
    CASE t = "ready_to_generate" -> "READY_TO_GENERATE"
      [] t = "Ready_To_Generate" -> "READY_TO_GENERATE"
      [] t = "ready" -> "READY"
      [] t = "to" -> "TO"
      [] t = "generate" -> "GENERATE"
      [] t = "Still" -> "STILL"
      [] t = "thinking" -> "THINKING"
      [] t = "Great" -> "GREAT"
      [] t = "choice" -> "CHOICE"
      [] t = "/done" -> "/DONE"
      [] OTHER -> t

\* strings.ToUpper
ToUpper(s) == [i \in DOMAIN s |-> UpperToken(s[i])]

\* strings.EqualFold
EqualFold(s, t) == ToUpper(s) = ToUpper(t)

\* --------------------------------------------------------------- IsReady
ReadyToken == <<"READY_TO_GENERATE">>
ReadyPhrase == <<"READY", " ", "TO", " ", "GENERATE">>

\* a test that knows the token alone
IsReady_TokenOnly(reply) ==
    LET normalized == ToUpper(TrimSpace(reply))
    IN Contains(normalized, ReadyToken)

\* IsReady
IsReady(reply) ==
    LET normalized == ToUpper(TrimSpace(reply))
    IN IF Contains(normalized, ReadyToken) THEN TRUE
       ELSE Contains(normalized, ReadyPhrase)

\* --------------------------------------------------------- parseSelection
NoSelection == << >>

MkSelection(p, addons, assets, c) ==
    [ProfileID |-> p, AddonIDs |-> addons, AssetIDs |-> assets, Confidence |-> c]

\* the JSON objects a reply can carry, by the text between the braces;
\* json.Unmarshal fills a Selection from the object, absent fields are zero
jsonObjects ==
    [k \in {"phoenix-both", "nextjs-prefixed", "go-craft", "rails-mixed",
            "flutter-data", "spring-plain", "cobol", "no-profile", "rails-vague",
            "rails-palettes", "phoenix-server", "rails-threshold"} |->
      CASE k = "phoenix-both" ->
             MkSelection(<<"elixir-phoenix">>,
                 <<AddonPrefix \o DataIntensive, AddonPrefix \o DataIntensive, FrontendCraft>>,
                 <<PaletteObsidian>>, 95)
        [] k = "nextjs-prefixed" ->
             MkSelection(ProfilePrefix \o <<"typescript-nextjs">>, << >>, << >>, 88)
        [] k = "go-craft" ->
             MkSelection(<<"go-service">>, <<FrontendCraft>>, << >>, 90)
        [] k = "rails-mixed" ->
             MkSelection(<<"ruby-rails">>, << >>,
                 <<ProfilePrefix \o <<"ruby-rails">>, AddonPrefix \o DataIntensive,
                   LintStrict, EmptyStr, LintStrict>>, 90)
        [] k = "flutter-data" ->
             MkSelection(<<"dart-flutter">>, <<DataIntensive>>, << >>, 90)
        [] k = "spring-plain" ->
             MkSelection(<<"java-spring">>, << >>, << >>, 90)
        [] k = "cobol" ->
             MkSelection(<<"cobol-mainframe">>, << >>, << >>, 99)
        [] k = "no-profile" ->
             MkSelection(EmptyStr, <<FrontendCraft>>, << >>, 50)
        [] k = "rails-vague" ->
             MkSelection(<<"ruby-rails">>, <<FrontendCraft>>, << >>, 71)
        [] k = "rails-palettes" ->
             MkSelection(<<" ", "ruby-rails", " ">>, << >>,
                 <<PaletteHeroui, PaletteObsidian>>, 90)
        [] k = "phoenix-server" ->
             MkSelection(<<"elixir-phoenix">>, << >>,
                 <<ServerPatterns, TestingPragmatic>>, 90)
        [] k = "rails-threshold" ->
             MkSelection(<<"ruby-rails">>, <<DataIntensive>>, <<LintStrict>>, 72)]

\* JSON written out token by token: a string between double quotes, a list
\* between brackets, the four fields of Selection in the order of the struct
Quote(str) == <<"\"">> \o str \o <<"\"">>

RECURSIVE EncodeList(_)
EncodeList(list) ==
    IF list = << >> THEN << >>
    ELSE Quote(Head(list)) \o (IF Len(list) > 1 THEN <<",">> ELSE << >>)
           \o EncodeList(Tail(list))

\* the numbers a confidence field is written as, in hundredths
numberTokens == [t \in {"0.5", "0.71", "0.72", "0.9"} |->
                   CASE t = "0.5" -> 50 [] t = "0.71" -> 71 [] t = "0.72" -> 72
                     [] t = "0.9" -> 90]

EncodeNumber(c) == CHOOSE t \in DOMAIN numberTokens : numberTokens[t] = c

EncodeSelection(s) ==
    <<"{", "profile_id", ":">> \o Quote(s.ProfileID)
      \o <<",", "addon_ids", ":", "[">> \o EncodeList(s.AddonIDs) \o <<"]">>
      \o <<",", "asset_ids", ":", "[">> \o EncodeList(s.AssetIDs) \o <<"]">>
      \o <<",", "confidence", ":", EncodeNumber(s.Confidence), "}">>

\* the decoder of encoding/json, on that token form

\* the n-th smallest member of a set of positions
Nth(S, n) == CHOOSE k \in S : Cardinality({q \in S : q < k}) = n - 1

\* a JSON string: what stands between two quotes, with no quote inside
DecodeString(toks) ==
    LET ok == /\ Len(toks) >= 2
              /\ toks[1] = "\""
              /\ toks[Len(toks)] = "\""
              /\ \A k \in 2..(Len(toks) - 1) : toks[k] # "\""
    IN [ok |-> ok, val |-> IF ok THEN SubSeq(toks, 2, Len(toks) - 1) ELSE << >>]

\* the inside of a JSON array of strings: strings separated by commas
DecodeList(toks) ==
    LET Q == {k \in DOMAIN toks : toks[k] = "\""}
        n == Cardinality(Q) \div 2
        ok == /\ Cardinality(Q) = 2 * n
              /\ n = 0 => toks = << >>
              /\ n > 0 => /\ Nth(Q, 1) = 1
                          /\ Nth(Q, 2 * n) = Len(toks)
                          /\ \A k \in 1..(n - 1) :
                               /\ Nth(Q, 2 * k + 1) = Nth(Q, 2 * k) + 2
                               /\ toks[Nth(Q, 2 * k) + 1] = ","
    IN [ok |-> ok,
        val |-> IF ok THEN [k \in 1..n |-> SubSeq(toks, Nth(Q, 2 * k - 1) + 1,
                                                   Nth(Q, 2 * k) - 1)]
                ELSE << >>]

\* an object with the fields profile_id, addon_ids, asset_ids and confidence
DecodeObject(toks) ==
    LET pa == Index(toks, <<",", "addon_ids", ":", "[">>)
        ps == Index(toks, <<"]", ",", "asset_ids", ":", "[">>)
        pn == Index(toks, <<"]", ",", "confidence", ":">>)
        shaped == /\ Len(toks) >= 3
                  /\ SubSeq(toks, 1, 3) = <<"{", "profile_id", ":">>
                  /\ 3 < pa /\ pa + 4 <= ps /\ ps + 5 <= pn
                  /\ Len(toks) = pn + 5
                  /\ toks[pn + 4] \in DOMAIN numberTokens
                  /\ toks[pn + 5] = "}"
        p == DecodeString(SubSeq(toks, 4, pa - 1))
        a == DecodeList(SubSeq(toks, pa + 4, ps - 1))
        s == DecodeList(SubSeq(toks, ps + 5, pn - 1))
    IN IF shaped /\ p.ok /\ a.ok /\ s.ok
       THEN [ok |-> TRUE,
             sel |-> MkSelection(p.val, a.val, s.val, numberTokens[toks[pn + 4]])]
       ELSE [ok |-> FALSE, sel |-> MkSelection(EmptyStr, << >>, << >>, 0)]

\* json.Unmarshal against the Selection shape: an object in braces decodes,
\* anything else is an error
Unmarshal(clean) ==
    IF Len(clean) = 3 /\ clean[1] = "{" /\ clean[3] = "}" /\ clean[2] \in DOMAIN jsonObjects
    THEN [ok |-> TRUE, sel |-> jsonObjects[clean[2]]]
    ELSE DecodeObject(clean)

\* the markdown code fence: three backquotes
Fence == "<fence>"

\* the fence stripping and brace slicing of parseSelection
cleanSelectionText(raw) ==
    LET c1 == TrimSpace(raw)
        c2 == TrimPrefix(c1, <<Fence, "json">>)
        c3 == TrimPrefix(c2, <<Fence>>)
        c4 == TrimSuffix(c3, <<Fence>>)
        c5 == TrimSpace(c4)
        i == Index(c5, <<"{">>)
        j == LastIndex(c5, <<"}">>)
    IN IF i # 0 /\ j > i THEN SubSeq(c5, i, j) ELSE c5

\* the addon normalisation loop of parseSelection, from entry i on
RECURSIVE normalizeAddons(_, _, _, _)
normalizeAddons(addonIDs, i, seenAddons, normalizedAddons) ==
    IF i > Len(addonIDs) THEN normalizedAddons
    ELSE LET id == TrimPrefix(TrimSpace(addonIDs[i]), AddonPrefix) IN
         IF id = EmptyStr \/ id \in seenAddons
         THEN normalizeAddons(addonIDs, i + 1, seenAddons, normalizedAddons)
         ELSE normalizeAddons(addonIDs, i + 1, seenAddons \cup {id},
                              Append(normalizedAddons, id))

\* the asset normalisation loop of parseSelection, from entry i on
RECURSIVE normalizeAssets(_, _, _, _)
normalizeAssets(assetIDs, i, seenAssets, normalizedAssets) ==
    IF i > Len(assetIDs) THEN normalizedAssets
    ELSE LET id == TrimSpace(assetIDs[i]) IN
         IF \/ id = EmptyStr
            \/ HasPrefix(id, ProfilePrefix)
            \/ HasPrefix(id, AddonPrefix)
            \/ id \in seenAssets
         THEN normalizeAssets(assetIDs, i + 1, seenAssets, normalizedAssets)
         ELSE normalizeAssets(assetIDs, i + 1, seenAssets \cup {id},
                              Append(normalizedAssets, id))

\* a parser that returns addon_ids as decoded
parseSelection_AddonsAsDecoded(raw) ==
    LET u == Unmarshal(cleanSelectionText(raw)) IN
    IF ~u.ok
    THEN [ok |-> FALSE, sel |-> NoSelection,
          err |-> <<"parse selection: ", "\n", "raw output: ">> \o raw]
    ELSE [ok |-> TRUE,
          sel |-> << MkSelection(
                       TrimPrefix(TrimSpace(u.sel.ProfileID), ProfilePrefix),
                       u.sel.AddonIDs,
                       normalizeAssets(u.sel.AssetIDs, 1, {}, << >>),
                       u.sel.Confidence) >>,
          err |-> EmptyStr]

\* a parser that returns asset_ids as decoded
parseSelection_AssetsAsDecoded(raw) ==
    LET u == Unmarshal(cleanSelectionText(raw)) IN
    IF ~u.ok
    THEN [ok |-> FALSE, sel |-> NoSelection,
          err |-> <<"parse selection: ", "\n", "raw output: ">> \o raw]
    ELSE [ok |-> TRUE,
          sel |-> << MkSelection(
                       TrimPrefix(TrimSpace(u.sel.ProfileID), ProfilePrefix),
                       normalizeAddons(u.sel.AddonIDs, 1, {}, << >>),
                       u.sel.AssetIDs,
                       u.sel.Confidence) >>,
          err |-> EmptyStr]

\* a parser that trims profile_id and leaves its prefix
parseSelection_ProfileTrimmedOnly(raw) ==
    LET u == Unmarshal(cleanSelectionText(raw)) IN
    IF ~u.ok
    THEN [ok |-> FALSE, sel |-> NoSelection,
          err |-> <<"parse selection: ", "\n", "raw output: ">> \o raw]
    ELSE [ok |-> TRUE,
          sel |-> << MkSelection(
                       TrimSpace(u.sel.ProfileID),
                       normalizeAddons(u.sel.AddonIDs, 1, {}, << >>),
                       normalizeAssets(u.sel.AssetIDs, 1, {}, << >>),
                       u.sel.Confidence) >>,
          err |-> EmptyStr]

\* parseSelection: the normalised Selection, or an error carrying the raw text
parseSelection(raw) ==
    LET u == Unmarshal(cleanSelectionText(raw)) IN
    IF ~u.ok
    THEN [ok |-> FALSE, sel |-> NoSelection,
          err |-> <<"parse selection: ", "\n", "raw output: ">> \o raw]
    ELSE [ok |-> TRUE,
          sel |-> << MkSelection(
                       TrimPrefix(TrimSpace(u.sel.ProfileID), ProfilePrefix),
                       normalizeAddons(u.sel.AddonIDs, 1, {}, << >>),
                       normalizeAssets(u.sel.AssetIDs, 1, {}, << >>),
                       u.sel.Confidence) >>,
          err |-> EmptyStr]

\* -------------------------------------------------------- parseFileOutput
startMark == <<"===", "FILE: ">>
endMark == <<"===", "END_FILE", "===">>
markerClose == <<"===">>

\* parseFileOutput: the loop over remaining, files collected so far
RECURSIVE parseFileLoop(_, _)
parseFileLoop(remaining, files) ==
    LET si == Index(remaining, startMark) IN
    IF si = 0 THEN files
    ELSE LET after == SubSeq(remaining, si + Len(startMark), Len(remaining))
             ep == Index(after, markerClose)
         IN IF ep = 0 THEN files
            ELSE LET path == TrimSpace(SubSeq(after, 1, ep - 1))
                     \* first token after the closing === of the start marker
                     cs == si + Len(startMark) + (ep - 1) + Len(markerClose)
                     rest == SubSeq(remaining, cs, Len(remaining))
                     ei == Index(rest, endMark)
                 IN IF ei = 0 THEN files
                    ELSE parseFileLoop(
                           SubSeq(rest, ei + Len(endMark), Len(rest)),
                           Append(files, [Path |-> path,
                                          Content |-> TrimSpace(SubSeq(rest, 1, ei - 1))]))

\* a parser that stops after its first block
parseFileOutput_FirstBlockOnly(raw) ==
    LET files == parseFileLoop(raw, << >>) IN
    IF Len(files) > 1 THEN SubSeq(files, 1, 1) ELSE files

\* a parser that gives up everything when a block is left open
parseFileOutput_StrictOnTruncation(raw) ==
    LET lastEnd == LastIndex(raw, endMark)
        tail == IF lastEnd = 0 THEN raw ELSE SubSeq(raw, lastEnd + Len(endMark), Len(raw))
    IN IF Contains(tail, startMark) THEN << >> ELSE parseFileLoop(raw, << >>)

parseFileOutput(raw) == parseFileLoop(raw, << >>)

\* --------------------------------------------------------- filepath.Join
\* a path is a token string whose separators are "/" tokens

\* the elements of a path between separators, empty elements included
RECURSIVE splitPath(_, _, _)
splitPath(p, i, cur) ==
    IF i > Len(p) THEN <<cur>>
    ELSE IF p[i] = "/" THEN <<cur>> \o splitPath(p, i + 1, EmptyStr)
    ELSE splitPath(p, i + 1, Append(cur, p[i]))

\* the element walk of filepath.Clean: out is the stack of kept elements
RECURSIVE cleanWalk(_, _, _, _)
cleanWalk(elems, i, rooted, out) ==
    IF i > Len(elems) THEN out
    ELSE LET e == elems[i] IN
         IF e = EmptyStr \/ e = <<".">> THEN cleanWalk(elems, i + 1, rooted, out)
         ELSE IF e = <<"..">>
         THEN IF Len(out) > 0 /\ out[Len(out)] # <<"..">>
              THEN cleanWalk(elems, i + 1, rooted, SubSeq(out, 1, Len(out) - 1))
              ELSE IF rooted THEN cleanWalk(elems, i + 1, rooted, out)
              ELSE cleanWalk(elems, i + 1, rooted, Append(out, e))
         ELSE cleanWalk(elems, i + 1, rooted, Append(out, e))

\* filepath.Clean, with the cleaned path kept as its list of elements
cleanElems(p) == cleanWalk(splitPath(p, 1, EmptyStr), 1, Len(p) > 0 /\ p[1] = "/", << >>)

\* filepath.Clean
filepathClean(p) ==
    LET rooted == Len(p) > 0 /\ p[1] = "/"
        body == Join(cleanElems(p), <<"/">>)
    IN IF rooted THEN <<"/">> \o body
       ELSE IF body = EmptyStr THEN <<".">> ELSE body

\* filepath.Join of two elements: empty elements are ignored, the rest cleaned
filepathJoin(a, b) ==
    IF a = EmptyStr /\ b = EmptyStr THEN EmptyStr
    ELSE IF a = EmptyStr THEN filepathClean(b)
    ELSE IF b = EmptyStr THEN filepathClean(a)
    ELSE filepathClean(a \o <<"/">> \o b)

\* ------------------------------------------------------- prompt assembly
confidenceThreshold == 72

\* conversationSystemPrompt(): the fixed framing of every conversation turn
conversationSystemPrompt == <<"CONSTRAINTS", "PHASES", "DECISION MAP", "Catalog IDs">>

\* the profile IDs the extraction instruction offers for profile_id
extractProfileIDs ==
    << <<"elixir-phoenix">>, <<"typescript-sveltekit">>, <<"ruby-rails">>,
       <<"typescript-nextjs">>, <<"typescript-fastify">>, <<"go-service">>,
       <<"dotnet-api">>, <<"java-spring">>, <<"python-fastapi">>, <<"python-django">>,
       <<"dart-flutter">>, <<"rust-axum">>, <<"laravel">> >>

\* the extraction instruction of ExtractDecision (the JSON frame around the
\* profile_id line and the catalog lines are left out of the text)
extractPrompt ==
    <<"Based on our conversation, extract the final stack decision.", "profile_id: ", "<">>
      \o Join(extractProfileIDs, <<"|">>) \o <<">">>

\* the ===ASSET blocks of GenerateFiles, one per resolved asset in order
RECURSIVE contextBlocks(_)
contextBlocks(assets) ==
    IF Len(assets) = 0 THEN EmptyStr
    ELSE <<"===ASSET: ">> \o assets[1].ID \o <<"===", "\n", "===END_ASSET===", "\n">>
           \o contextBlocks(Tail(assets))

\* a block gated on the palette, the fonts and frontend-craft alone
designGuidance_VisualOnly(assets) ==
    LET ids == {assets[i].ID : i \in DOMAIN assets}
        hasPalette == \E id \in ids : HasPrefix(id, PalettePrefix)
        hasFonts == \E id \in ids : HasPrefix(id, FontsPrefix)
        hasFrontendCraft == AddonPrefix \o FrontendCraft \in ids
    IN IF hasPalette \/ hasFonts \/ hasFrontendCraft
       THEN <<"DESIGN SYSTEM SYNTHESIS:", "\n">>
              \o (IF hasPalette THEN <<"- A palette asset is included.", "\n">> ELSE << >>)
              \o (IF hasFonts THEN <<"- A font pairing asset is included.", "\n">> ELSE << >>)
              \o (IF hasFrontendCraft
                  THEN <<"- The frontend-craft addon is included.", "\n">> ELSE << >>)
              \o <<"- Generate a dedicated design-system.instructions.md", "\n", "\n">>
       ELSE EmptyStr

\* the DESIGN SYSTEM SYNTHESIS block of GenerateFiles
designGuidance(assets) ==
    LET ids == {assets[i].ID : i \in DOMAIN assets}
        hasDesignSystem == <<"core.", "design-system">> \in ids
        hasPalette == \E id \in ids : HasPrefix(id, PalettePrefix)
        hasFonts == \E id \in ids : HasPrefix(id, FontsPrefix)
        hasFrontendCraft == AddonPrefix \o FrontendCraft \in ids
    IN IF hasDesignSystem \/ hasPalette \/ hasFonts \/ hasFrontendCraft
       THEN <<"DESIGN SYSTEM SYNTHESIS:", "\n">>
              \o (IF hasPalette THEN <<"- A palette asset is included.", "\n">> ELSE << >>)
              \o (IF hasFonts THEN <<"- A font pairing asset is included.", "\n">> ELSE << >>)
              \o (IF hasFrontendCraft
                  THEN <<"- The frontend-craft addon is included.", "\n">> ELSE << >>)
              \o <<"- Generate a dedicated design-system.instructions.md", "\n", "\n">>
       ELSE EmptyStr

\* the SERVER PATTERNS and TESTING blocks of GenerateFiles
assetGuidance(assets) ==
    LET ids == {assets[i].ID : i \in DOMAIN assets}
    IN (IF ServerPatterns \in ids THEN <<"SERVER PATTERNS:", "\n", "\n">> ELSE << >>)
         \o (IF TestingPragmatic \in ids THEN <<"TESTING:", "\n", "\n">> ELSE << >>)

\* the UI STACK NOTE block of GenerateFiles
uiGuidance(profileID) ==
    IF FindProfile(profileID).HasUI THEN <<"UI STACK NOTE:", "\n", "\n">> ELSE EmptyStr

\* the generation prompt of GenerateFiles (the sorted asset summary, the
\* scaffold command and the file glob are left out of the text)
generationPrompt(projectName, selection, assets) ==
    <<"Generate AI instruction files for the project ">> \o projectName
      \o <<"\n", "Selected: profile=">> \o selection.ProfileID
      \o <<" | addons=">> \o Join(selection.AddonIDs, <<", ">>) \o <<"\n">>
      \o uiGuidance(selection.ProfileID)
      \o designGuidance(assets)
      \o assetGuidance(assets)
      \o <<"ADAPTATION RULE:", "\n">>
      \o contextBlocks(assets)
      \o <<"Output ONLY file blocks">>

\* gates whose error names the first issue only
generateGate_FirstIssueOnly(projectName, s) ==
    IF s = NoSelection \/ s[1].ProfileID = EmptyStr
    THEN [ok |-> FALSE, err |-> <<"no stack selected">>, prompt |-> EmptyStr,
          validated |-> FALSE, resolved |-> FALSE]
    ELSE IF s[1].Confidence < confidenceThreshold
    THEN [ok |-> FALSE,
          err |-> <<"confidence ", "%.2f", " is below minimum ", "%.2f", " - ",
                    "try describing your project in more detail">>,
          prompt |-> EmptyStr, validated |-> FALSE, resolved |-> FALSE]
    ELSE LET found == ValidateSelectionCompatibility(s[1]) IN
         IF Len(found) > 0
         THEN [ok |-> FALSE,
               err |-> <<"incompatible selection: ">> \o found[1],
               prompt |-> EmptyStr, validated |-> TRUE, resolved |-> FALSE]
         ELSE LET r == resolveContextAssets(s[1]) IN
              IF ~r.ok
              THEN [ok |-> FALSE,
                    err |-> <<"resolving assets: ", "unknown context asset ">> \o r.unknown,
                    prompt |-> EmptyStr, validated |-> TRUE, resolved |-> TRUE]
              ELSE [ok |-> TRUE, err |-> EmptyStr,
                    prompt |-> generationPrompt(projectName, s[1], r.assets),
                    validated |-> TRUE, resolved |-> TRUE]

\* gates that refuse the threshold itself
generateGate_AtMostThreshold(projectName, s) ==
    IF s = NoSelection \/ s[1].ProfileID = EmptyStr
    THEN [ok |-> FALSE, err |-> <<"no stack selected">>, prompt |-> EmptyStr,
          validated |-> FALSE, resolved |-> FALSE]
    ELSE IF s[1].Confidence <= confidenceThreshold
    THEN [ok |-> FALSE,
          err |-> <<"confidence ", "%.2f", " is below minimum ", "%.2f", " - ",
                    "try describing your project in more detail">>,
          prompt |-> EmptyStr, validated |-> FALSE, resolved |-> FALSE]
    ELSE LET found == ValidateSelectionCompatibility(s[1]) IN
         IF Len(found) > 0
         THEN [ok |-> FALSE,
               err |-> <<"incompatible selection: ">> \o Join(found, <<"; ">>),
               prompt |-> EmptyStr, validated |-> TRUE, resolved |-> FALSE]
         ELSE LET r == resolveContextAssets(s[1]) IN
              IF ~r.ok
              THEN [ok |-> FALSE,
                    err |-> <<"resolving assets: ", "unknown context asset ">> \o r.unknown,
                    prompt |-> EmptyStr, validated |-> TRUE, resolved |-> TRUE]
              ELSE [ok |-> TRUE, err |-> EmptyStr,
                    prompt |-> generationPrompt(projectName, s[1], r.assets),
                    validated |-> TRUE, resolved |-> TRUE]

\* the gates of GenerateFiles up to the Provider call: an error, or the prompt
\* to send together with what the validator and the resolver returned
generateGate(projectName, s) ==
    IF s = NoSelection \/ s[1].ProfileID = EmptyStr
    THEN [ok |-> FALSE, err |-> <<"no stack selected">>, prompt |-> EmptyStr,
          validated |-> FALSE, resolved |-> FALSE]
    ELSE IF s[1].Confidence < confidenceThreshold
    THEN [ok |-> FALSE,
          err |-> <<"confidence ", "%.2f", " is below minimum ", "%.2f", " - ",
                    "try describing your project in more detail">>,
          prompt |-> EmptyStr, validated |-> FALSE, resolved |-> FALSE]
    ELSE LET found == ValidateSelectionCompatibility(s[1]) IN
         IF Len(found) > 0
         THEN [ok |-> FALSE,
               err |-> <<"incompatible selection: ">> \o Join(found, <<"; ">>),
               prompt |-> EmptyStr, validated |-> TRUE, resolved |-> FALSE]
         ELSE LET r == resolveContextAssets(s[1]) IN
              IF ~r.ok
              THEN [ok |-> FALSE,
                    err |-> <<"resolving assets: ", "unknown context asset ">> \o r.unknown,
                    prompt |-> EmptyStr, validated |-> TRUE, resolved |-> TRUE]
              ELSE [ok |-> TRUE, err |-> EmptyStr,
                    prompt |-> generationPrompt(projectName, s[1], r.assets),
                    validated |-> TRUE, resolved |-> TRUE]

\* ------------------------------------------------------------------ state
\* most Chat calls of one run
MaxTurns == 2

VARIABLES
    pc,                 \* position of the caller (runInit, or a direct call)
    sel,                \* the Selection in play: << >> (nil) or <<Selection>>
    issues,             \* what the last ValidateSelectionCompatibility call returned
    assets,             \* what the last resolveContextAssets call returned
    resolverCalls,      \* the Selections resolveContextAssets was invoked on
    calls,              \* the Provider.Send calls made so far
    op,                 \* the engine operation whose Send is in flight
    attempt,            \* attempt counter of the Send in flight (0: none)
    sendLog,            \* what the Send in flight, or the last one, went through
    cancelled,          \* the caller's context is done
    parseInput,         \* the text handed to a parser called on its own
    parseResult,        \* what that parser returned
    previousResponseID, \* OpenAIProvider.previousResponseID
    sendRes,            \* what the last Send returned
    reply,              \* runInit's reply variable
    userInput,          \* runInit's userInput variable: << >> before the first read
    turns,              \* number of Chat calls made
    genRes,             \* what GenerateFiles returned
    pending,            \* files runInit has still to write
    written,            \* files written to disk
    err                 \* the error runInit returned (<< >>: none)

vars == <<pc, sel, issues, assets, resolverCalls, calls, op, attempt, sendLog,
          cancelled, parseInput, parseResult, previousResponseID, sendRes, reply, userInput, turns, genRes, pending,
          written, err>>

\* outputPath and projectName of runInit (filepath.Abs and filepath.Base of
\* the target directory)
outputPath == <<"/", "work", "/", "my-app">>
projectName == <<"my-app">>

NoResult == [ok |-> FALSE, text |-> EmptyStr, err |-> EmptyStr]
NoFiles == [ok |-> FALSE, files |-> << >>, err |-> EmptyStr]
NoAssets == [ok |-> FALSE, assets |-> << >>, unknown |-> EmptyStr]
NoParse == [ok |-> FALSE, sel |-> << >>, files |-> << >>, err |-> EmptyStr]

\* ------------------------------------------------------------ the backend
\* response IDs the backend hands out ("" when the body carries none)
ResponseIDs == {"", "resp_a"}

\* assistant texts of a conversation turn
ChatReplies ==
    { <<"Still", " ", "thinking">>,
      <<"Great", " ", "choice", "\n", "READY_TO_GENERATE">>,
      <<"ready_to_generate", "\n">>,
      <<"ready", " ", "to", " ", "generate">> }

\* assistant texts of the extraction turn
ExtractReplies ==
    { <<"I", " ", "cannot", " ", "decide">>,
      <<"{", "truncated">> }
    \cup {<<"{", k, "}">> : k \in DOMAIN jsonObjects \ {"phoenix-both", "rails-mixed"}}
    \cup { <<Fence, "json", "\n", "{", "phoenix-both", "}", "\n", Fence>>,
           <<"Here", " ", "{", "rails-mixed", "}", " ", "done">> }

\* assistant texts of the generation turn
GenerateReplies ==
    { <<"No", " ", "file", " ", "blocks">>,
      <<"===", "FILE: ", "AGENTS.md", "===", "\n", "# Rules", "\n", "===", "END_FILE", "===", "\n">>,
      <<"===", "FILE: ", ".github", "/", "copilot-instructions.md", "===", "\n", "# Standards",
        "\n", "===", "END_FILE", "===", "\n", "\n",
        "===", "FILE: ", "AGENTS.md", "===", "\n", "# Rules", "\n", "===", "END_FILE", "===">>,
      <<"===", "FILE: ", "AGENTS.md", "===", "\n", "# Rules", "\n", "===", "END_FILE", "===",
        "===", "FILE: ", "..", "/", "notes.md", "===", "# cut">>,
      <<"===", "FILE: ", "/", "etc", "/", "motd", "===", "hello", "===", "END_FILE", "===">>,
      <<"===", "FILE: ", "..", "/", "notes.md", "===", "\n", "# Notes", "\n", "===",
        "END_FILE", "===">>,
      <<"===", "FILE: ", "AGENTS.md", "===", "\n", "# cut">> }

\* assistant texts a caller of Provider.Send gets
SendReplies == { <<" ", "PONG", "\n">> }

RepliesFor(o) ==
    CASE o = "Chat" -> ChatReplies
      [] o = "Extract" -> ExtractReplies
      [] o = "Generate" -> GenerateReplies
      [] o = "Send" -> SendReplies

\* what the user types at a prompt
UserInputs ==
    { EmptyStr, <<" ">>, <<"/done">>, <<"/DONE">>, <<"a", " ", "chat", " ", "app", "\n">> }

\* ---------------------------------------------------------- Provider.Send
\* one entry of sendLog: an HTTP attempt that ended with the outcome event,
\* or a backoff sleep that ran to its end (event "slept", attempt * 2 seconds);
\* id is the ID of the decoded response body, "" when no body was decoded
LogEntry(event, n, id) == [event |-> event, attempt |-> n, id |-> id]

\* entry of OpenAIProvider.Send: the request body is built from the message,
\* the instructions and the cursor, and the attempt loop starts
StartSend(o, message, systemPrompt) ==
    /\ calls' = Append(calls, [op |-> o, input |-> message,
                               instructions |-> systemPrompt,
                               previous_response_id |-> previousResponseID])
    /\ op' = o
    /\ attempt' = 1
    /\ sendLog' = << >>
    /\ pc' = "Sending"

\* an error return that also forgets the conversation
SendError_ClearsCursor(e) ==
    /\ sendRes' = [ok |-> FALSE, text |-> EmptyStr, err |-> e]
    /\ attempt' = 0
    /\ pc' = "SendReturned"
    /\ previousResponseID' = ""

SendError(e) ==
    /\ sendRes' = [ok |-> FALSE, text |-> EmptyStr, err |-> e]
    /\ attempt' = 0
    /\ pc' = "SendReturned"
    /\ UNCHANGED previousResponseID

ErrRateLimited == <<"rate limited after 3 retries">>
ErrAPIStatus == <<"OpenAI API error (HTTP ", "%d", ")">>
ErrEmptyResponse == <<"empty response from API">>
ErrContextCanceled == <<"http: ", "context canceled">>

\* what an HTTP round trip can end in: with the context done, client.Do
\* returns the context's error
Outcomes ==
    IF cancelled THEN {"canceled"}
    ELSE {"transport", "body", "429", "status", "undecodable", "empty", "ok"}

\* one pass of the attempt loop of OpenAIProvider.Send, up to the return or
\* to the time.Sleep call
HTTPAttempt ==
    /\ pc = "Sending"
    /\ \E outcome \in Outcomes, id \in ResponseIDs :
         /\ outcome \notin {"empty", "ok"} => id = ""
         /\ sendLog' = Append(sendLog, LogEntry(outcome, attempt, id))
         /\ CASE outcome = "canceled" -> SendError(ErrContextCanceled)
              [] outcome = "transport" -> SendError(<<"http: ", "transport">>)
              [] outcome = "body" -> SendError(<<"read body: ", "transport">>)
              [] outcome = "429" ->
                   /\ pc' = "Backoff"
                   /\ UNCHANGED <<attempt, sendRes, previousResponseID>>
              [] outcome = "status" -> SendError(ErrAPIStatus)
              [] outcome = "undecodable" -> SendError(<<"decode response: ", "json">>)
              [] outcome = "empty" -> SendError(ErrEmptyResponse)
              [] outcome = "ok" ->
                   \E text \in RepliesFor(op) :
                       /\ TrimSpace(text) # EmptyStr
                       /\ previousResponseID' = id
                       /\ sendRes' = [ok |-> TRUE, text |-> TrimSpace(text), err |-> EmptyStr]
                       /\ attempt' = 0
                       /\ pc' = "SendReturned"
    /\ UNCHANGED <<sel, issues, assets, resolverCalls, calls, op, cancelled, parseInput, parseResult, reply, userInput,
                   turns, genRes, pending, written, err>>

\* a loop that goes round a fourth time
Backoff_FourthAttempt ==
    /\ pc = "Backoff"
    /\ sendLog' = Append(sendLog, LogEntry("slept", attempt, ""))
    /\ IF attempt < 4
       THEN /\ attempt' = attempt + 1
            /\ pc' = "Sending"
            /\ UNCHANGED <<sendRes, previousResponseID>>
       ELSE SendError(ErrRateLimited)
    /\ UNCHANGED <<sel, issues, assets, resolverCalls, calls, op, cancelled, parseInput, parseResult, reply, userInput,
                   turns, genRes, pending, written, err>>

\* the time.Sleep after a 429 returns, whatever happened to the context, and
\* the loop goes on: the next attempt, or after the third the rate-limit error
Backoff ==
    /\ pc = "Backoff"
    /\ sendLog' = Append(sendLog, LogEntry("slept", attempt, ""))
    /\ IF attempt < 3
       THEN /\ attempt' = attempt + 1
            /\ pc' = "Sending"
            /\ UNCHANGED <<sendRes, previousResponseID>>
       ELSE SendError(ErrRateLimited)
    /\ UNCHANGED <<sel, issues, assets, resolverCalls, calls, op, cancelled, parseInput, parseResult, reply, userInput,
                   turns, genRes, pending, written, err>>

\* ----------------------------------------------------------------- Engine
\* a Chat that sends the system prompt on the first call of a thread only
ChatCall_PromptOnFirstCall(message, failPrefix) ==
    IF TrimSpace(message) = EmptyStr
    THEN /\ err' = failPrefix \o <<"empty message">>
         /\ pc' = "Failed"
         /\ UNCHANGED <<calls, op, attempt, sendLog, turns>>
    ELSE /\ StartSend("Chat", message,
                      IF previousResponseID = "" THEN conversationSystemPrompt ELSE EmptyStr)
         /\ turns' = turns + 1
         /\ UNCHANGED err

\* Engine.Chat up to the Provider call; a blank message fails without a call
ChatCall(message, failPrefix) ==
    IF TrimSpace(message) = EmptyStr
    THEN /\ err' = failPrefix \o <<"empty message">>
         /\ pc' = "Failed"
         /\ UNCHANGED <<calls, op, attempt, sendLog, turns>>
    ELSE /\ StartSend("Chat", message, conversationSystemPrompt)
         /\ turns' = turns + 1
         /\ UNCHANGED err

Fail(e) ==
    /\ err' = e
    /\ pc' = "Failed"

\* runInit: the first prompt, and the first Engine.Chat call
ReadFirstInput ==
    /\ pc = "AwaitingFirstInput"
    /\ \E readOK \in BOOLEAN, line \in UserInputs :
         IF ~readOK
         THEN Fail(<<"reading input: ", "EOF">>) /\ UNCHANGED <<calls, op, attempt, sendLog, turns>>
         ELSE LET firstInput == TrimSpace(line) IN
              IF firstInput = EmptyStr
              THEN /\ Fail(<<"please describe what you're building">>)
                   /\ UNCHANGED <<calls, op, attempt, sendLog, turns>>
              ELSE ChatCall(<<"Project name: ">> \o projectName
                              \o <<". What I'm building: ">> \o firstInput,
                            <<"conversation error: ">>)
    /\ UNCHANGED <<sel, issues, assets, resolverCalls, previousResponseID, cancelled, parseInput, parseResult, sendRes,
                   reply, userInput, genRes, pending, written>>

\* a return that carries on after a failed Chat
ChatReturn_IgnoreError ==
    /\ pc = "SendReturned" /\ op = "Chat"
    /\ reply' = sendRes.text
    /\ IF ~sendRes.ok
       THEN pc' = "InConversation" /\ UNCHANGED err
       ELSE /\ pc' = IF IsReady(sendRes.text) THEN "ReadyForExtraction" ELSE "InConversation"
            /\ UNCHANGED err
    /\ UNCHANGED <<sel, issues, assets, resolverCalls, calls, op, attempt, sendLog,
                   previousResponseID, cancelled, parseInput, parseResult, sendRes, userInput, turns, genRes, pending, written>>

\* a return that leaves the loop whatever the reply says
ChatReturn_AlwaysReady ==
    /\ pc = "SendReturned" /\ op = "Chat"
    /\ reply' = sendRes.text
    /\ IF ~sendRes.ok
       THEN Fail(<<"conversation error: ">> \o sendRes.err)
       ELSE /\ pc' = "ReadyForExtraction"
            /\ UNCHANGED err
    /\ UNCHANGED <<sel, issues, assets, resolverCalls, calls, op, attempt, sendLog,
                   previousResponseID, cancelled, parseInput, parseResult, sendRes, userInput, turns, genRes, pending, written>>

\* runInit: Engine.Chat returned; the loop condition is evaluated on the reply
ChatReturn ==
    /\ pc = "SendReturned" /\ op = "Chat"
    /\ reply' = sendRes.text
    /\ IF ~sendRes.ok
       THEN Fail(<<"conversation error: ">> \o sendRes.err)
       ELSE /\ pc' = IF IsReady(sendRes.text) THEN "ReadyForExtraction" ELSE "InConversation"
            /\ UNCHANGED err
    /\ UNCHANGED <<sel, issues, assets, resolverCalls, calls, op, attempt, sendLog,
                   previousResponseID, cancelled, parseInput, parseResult, sendRes, userInput, turns, genRes, pending, written>>

\* runInit: one pass of the conversation loop, up to the next Engine.Chat call
ReadUserInput ==
    /\ pc = "InConversation"
    /\ \E readOK \in BOOLEAN, line \in UserInputs :
         IF ~readOK
         THEN /\ Fail(<<"reading input: ", "EOF">>)
              /\ UNCHANGED <<userInput, calls, op, attempt, sendLog, turns>>
         ELSE /\ userInput' = <<TrimSpace(line)>>
              /\ IF TrimSpace(line) = EmptyStr \/ EqualFold(TrimSpace(line), <<"/done">>)
                 THEN /\ pc' = "ReadyForExtraction"
                      /\ UNCHANGED <<err, calls, op, attempt, sendLog, turns>>
                 ELSE /\ turns < MaxTurns
                      /\ ChatCall(TrimSpace(line), <<"conversation error: ">>)
    /\ UNCHANGED <<sel, issues, assets, resolverCalls, previousResponseID, cancelled, parseInput, parseResult, sendRes,
                   reply, genRes, pending, written>>

\* Engine.ExtractDecision up to the Provider call
ExtractDecisionCall ==
    /\ pc = "ReadyForExtraction"
    /\ StartSend("Extract", extractPrompt, EmptyStr)
    /\ UNCHANGED <<sel, issues, assets, resolverCalls, previousResponseID, cancelled, parseInput, parseResult, sendRes,
                   reply, userInput, turns, genRes, pending, written, err>>

\* an extraction that asks the Provider again when the reply does not parse
ExtractDecisionReturn_RetryOnParseError ==
    /\ pc = "SendReturned" /\ op = "Extract"
    /\ IF ~sendRes.ok
       THEN Fail(<<"extracting decision: ">> \o sendRes.err) /\ UNCHANGED sel
       ELSE LET parsed == parseSelection(sendRes.text) IN
            IF ~parsed.ok
            THEN pc' = "ReadyForExtraction" /\ UNCHANGED <<sel, err>>
            ELSE /\ sel' = parsed.sel
                 /\ pc' = "CallGenerate"
                 /\ UNCHANGED err
    /\ UNCHANGED <<issues, assets, resolverCalls, calls, op, attempt, sendLog,
                   previousResponseID, cancelled, parseInput, parseResult, sendRes, reply,
                   userInput, turns, genRes, pending, written>>

\* Engine.ExtractDecision after the Provider call, and runInit's error check
ExtractDecisionReturn ==
    /\ pc = "SendReturned" /\ op = "Extract"
    /\ IF ~sendRes.ok
       THEN Fail(<<"extracting decision: ">> \o sendRes.err) /\ UNCHANGED sel
       ELSE LET parsed == parseSelection(sendRes.text) IN
            IF ~parsed.ok
            THEN Fail(<<"extracting decision: ">> \o parsed.err) /\ UNCHANGED sel
            ELSE /\ sel' = parsed.sel
                 /\ pc' = "CallGenerate"
                 /\ UNCHANGED err
    /\ UNCHANGED <<issues, assets, resolverCalls, calls, op, attempt, sendLog,
                   previousResponseID, cancelled, parseInput, parseResult, sendRes, reply, userInput, turns, genRes, pending, written>>

\* Engine.GenerateFiles up to the Provider call
GenerateFilesCall ==
    /\ pc = "CallGenerate"
    /\ LET g == generateGate(projectName, sel) IN
         /\ issues' = IF g.validated THEN ValidateSelectionCompatibility(sel[1]) ELSE issues
         /\ assets' = IF g.resolved THEN resolveContextAssets(sel[1]) ELSE assets
         /\ resolverCalls' = IF g.resolved THEN Append(resolverCalls, sel[1])
                             ELSE resolverCalls
         /\ IF g.ok
            THEN StartSend("Generate", g.prompt, EmptyStr) /\ UNCHANGED genRes
            ELSE /\ genRes' = [ok |-> FALSE, files |-> << >>, err |-> g.err]
                 /\ pc' = "GenerateReturned"
                 /\ UNCHANGED <<calls, op, attempt, sendLog>>
    /\ UNCHANGED <<sel, previousResponseID, cancelled, parseInput, parseResult, sendRes, reply, userInput, turns, pending, written, err>>

\* a return that hands an empty list over as a result
GenerateFilesReturn_EmptyListOK ==
    /\ pc = "SendReturned" /\ op = "Generate"
    /\ genRes' =
         IF ~sendRes.ok THEN [ok |-> FALSE, files |-> << >>, err |-> sendRes.err]
         ELSE [ok |-> TRUE, files |-> parseFileOutput(sendRes.text), err |-> EmptyStr]
    /\ pc' = "GenerateReturned"
    /\ UNCHANGED <<sel, issues, assets, resolverCalls, calls, op, attempt, sendLog,
                   previousResponseID, cancelled, parseInput, parseResult, sendRes, reply,
                   userInput, turns, pending, written, err>>

\* Engine.GenerateFiles after the Provider call
GenerateFilesReturn ==
    /\ pc = "SendReturned" /\ op = "Generate"
    /\ genRes' =
         IF ~sendRes.ok THEN [ok |-> FALSE, files |-> << >>, err |-> sendRes.err]
         ELSE LET files == parseFileOutput(sendRes.text) IN
              IF Len(files) = 0
              THEN [ok |-> FALSE, files |-> << >>, err |-> <<"model returned no file blocks">>]
              ELSE [ok |-> TRUE, files |-> files, err |-> EmptyStr]
    /\ pc' = "GenerateReturned"
    /\ UNCHANGED <<sel, issues, assets, resolverCalls, calls, op, attempt, sendLog,
                   previousResponseID, cancelled, parseInput, parseResult, sendRes, reply, userInput, turns, pending, written, err>>

\* runInit: GenerateFiles returned; the output directory is created
AfterGenerate ==
    /\ pc = "GenerateReturned"
    /\ \E mkdirOK \in BOOLEAN :
         IF ~genRes.ok
         THEN Fail(<<"generation error: ">> \o genRes.err) /\ UNCHANGED pending
         ELSE IF Len(genRes.files) = 0
         THEN Fail(<<"no files were generated">>) /\ UNCHANGED pending
         ELSE IF ~mkdirOK
         THEN Fail(<<"creating directory: ", "errno">>) /\ UNCHANGED pending
         ELSE /\ pending' = genRes.files
              /\ pc' = "Writing"
              /\ UNCHANGED err
    /\ UNCHANGED <<sel, issues, assets, resolverCalls, calls, op, attempt, sendLog,
                   previousResponseID, cancelled, parseInput, parseResult, sendRes, reply, userInput, turns, genRes, written>>

\* runInit: one pass of the write loop
WriteFile ==
    /\ pc = "Writing"
    /\ Len(pending) > 0
    /\ \E mkdirOK \in BOOLEAN, writeOK \in BOOLEAN :
         LET f == pending[1]
             fullPath == filepathJoin(outputPath, f.Path)
         IN IF ~mkdirOK
            THEN Fail(<<"creating directory for ">> \o f.Path) /\ UNCHANGED <<pending, written>>
            ELSE IF ~writeOK
            THEN Fail(<<"writing ">> \o f.Path) /\ UNCHANGED <<pending, written>>
            ELSE /\ written' = Append(written, [Path |-> fullPath,
                                                 Content |-> f.Content \o <<"\n">>])
                 /\ pending' = Tail(pending)
                 /\ pc' = IF Len(pending) = 1 THEN "Done" ELSE "Writing"
                 /\ UNCHANGED err
    /\ UNCHANGED <<sel, issues, assets, resolverCalls, calls, op, attempt, sendLog,
                   previousResponseID, cancelled, parseInput, parseResult, sendRes, reply, userInput, turns, genRes>>

\* the state after NewOpenAIProvider and NewEngine, before the first prompt
Init ==
    /\ pc = "AwaitingFirstInput"
    /\ sel = NoSelection
    /\ issues = << >>
    /\ assets = NoAssets
    /\ resolverCalls = << >>
    /\ calls = << >>
    /\ op = "none"
    /\ attempt = 0
    /\ sendLog = << >>
    /\ previousResponseID = ""
    /\ cancelled = FALSE
    /\ parseInput = EmptyStr
    /\ parseResult = NoParse
    /\ sendRes = NoResult
    /\ reply = EmptyStr
    /\ userInput = << >>
    /\ turns = 0
    /\ genRes = NoFiles
    /\ pending = << >>
    /\ written = << >>
    /\ err = EmptyStr

Next ==
    \/ ReadFirstInput
    \/ HTTPAttempt
    \/ Backoff
    \/ ChatReturn
    \/ ReadUserInput
    \/ ExtractDecisionCall
    \/ ExtractDecisionReturn
    \/ GenerateFilesCall
    \/ GenerateFilesReturn
    \/ AfterGenerate
    \/ WriteFile

Spec == Init /\ [][Next]_vars

\* ----------------------------------------------------------- direct calls
\* The exported functions called on their own, as the package tests call
\* them: one call of ValidateSelectionCompatibility, resolveContextAssets or
\* Engine.GenerateFiles on a Selection the caller built.

ProfileInputs == ProfileIDs \cup {EmptyStr, <<"cobol-mainframe">>}
AddonInputs == {EmptyStr, DataIntensive, FrontendCraft}
AssetInputs ==
    { EmptyStr, PaletteHeroui, PaletteObsidian, FontsInter, FontsGeist, LintStrict,
      LintRelaxed, TestingPragmatic, TestingComprehensive, ServerPatterns }

\* every profile with every addon list, beside a few asset lists
AddonCases ==
    { MkSelection(p, a, s, c) :
        p \in ProfileInputs,
        a \in ListsUpTo(AddonInputs, MaxAddons),
        s \in {<< >>, <<PaletteHeroui, PaletteObsidian>>, <<TestingComprehensive>>},
        c \in {71, 72} }

\* every asset list, beside a few profiles and addon lists
AssetCases ==
    { MkSelection(p, a, s, c) :
        p \in {<<"ruby-rails">>, <<"cobol-mainframe">>},
        a \in {<< >>, <<DataIntensive>>},
        s \in ListsUpTo(AssetInputs, MaxAssets),
        c \in {72} }

DirectSelections == AddonCases \cup AssetCases

InitDirect ==
    /\ pc \in {"CallValidate", "CallResolve", "CallGenerate"}
    /\ sel \in {<<s>> : s \in DirectSelections}
               \cup (IF pc = "CallGenerate" THEN {NoSelection} ELSE {})
    /\ issues = << >>
    /\ assets = NoAssets
    /\ resolverCalls = << >>
    /\ calls = << >>
    /\ op = "none"
    /\ attempt = 0
    /\ sendLog = << >>
    /\ previousResponseID = ""
    /\ cancelled = FALSE
    /\ parseInput = EmptyStr
    /\ parseResult = NoParse
    /\ sendRes = NoResult
    /\ reply = EmptyStr
    /\ userInput = << >>
    /\ turns = 0
    /\ genRes = NoFiles
    /\ pending = << >>
    /\ written = << >>
    /\ err = EmptyStr

\* a validator that takes the blank entries out of the Selection it checks
Validate_DropsBlanks ==
    /\ pc \in {"CallValidate", "ValidateReturned"}
    /\ issues' = ValidateSelectionCompatibility(sel[1])
    /\ sel' = << [sel[1] EXCEPT !.AddonIDs = SelectSeq(@, LAMBDA id : id # EmptyStr),
                                !.AssetIDs = SelectSeq(@, LAMBDA id : id # EmptyStr)] >>
    /\ pc' = "ValidateReturned"
    /\ UNCHANGED <<assets, resolverCalls, calls, op, attempt, sendLog, previousResponseID,
                   cancelled, parseInput, parseResult, sendRes, reply, userInput, turns,
                   genRes, pending, written, err>>

\* a direct call of ValidateSelectionCompatibility; a caller may repeat it
Validate ==
    /\ pc \in {"CallValidate", "ValidateReturned"}
    /\ issues' = ValidateSelectionCompatibility(sel[1])
    /\ pc' = "ValidateReturned"
    /\ UNCHANGED <<sel, assets, resolverCalls, calls, op, attempt, sendLog, previousResponseID, cancelled, parseInput, parseResult,
                   sendRes, reply, userInput, turns, genRes, pending, written, err>>

\* most direct calls of resolveContextAssets by one caller
MaxResolves == 2

\* a direct call of resolveContextAssets; a caller may repeat it
Resolve ==
    /\ pc \in {"CallResolve", "ResolveReturned"}
    /\ Len(resolverCalls) < MaxResolves
    /\ assets' = resolveContextAssets(sel[1])
    /\ resolverCalls' = Append(resolverCalls, sel[1])
    /\ pc' = "ResolveReturned"
    /\ UNCHANGED <<sel, issues, calls, op, attempt, sendLog, previousResponseID, cancelled, parseInput, parseResult,
                   sendRes, reply, userInput, turns, genRes, pending, written, err>>

NextDirect ==
    \/ Validate
    \/ Resolve
    \/ GenerateFilesCall
    \/ HTTPAttempt
    \/ Backoff
    \/ GenerateFilesReturn

SpecDirect == InitDirect /\ [][NextDirect]_vars

\* a caller that has previewed the Selection with the validator goes on to
\* the run
RunAfterPreview ==
    /\ pc = "ValidateReturned"
    /\ pc' = "CallGenerate"
    /\ UNCHANGED <<sel, issues, assets, resolverCalls, calls, op, attempt, sendLog,
                   previousResponseID, cancelled, parseInput, parseResult, sendRes, reply,
                   userInput, turns, genRes, pending, written, err>>

NextPreview ==
    \/ Validate
    \/ Resolve
    \/ RunAfterPreview
    \/ GenerateFilesCall
    \/ HTTPAttempt
    \/ Backoff
    \/ GenerateFilesReturn

SpecPreview == InitDirect /\ [][NextPreview]_vars

\* ------------------------------------------------------ Provider callers
\* A caller that holds a Provider and calls Send again and again, under a
\* context it may cancel (context.WithTimeout, context.WithCancel).

\* most Send calls of one caller
MaxSends == 3

SendMessages == { <<"PING">> }
SendInstructions == { EmptyStr, <<"Answer", " ", "PONG">> }

InitSend ==
    /\ pc = "Idle"
    /\ sel = NoSelection
    /\ issues = << >>
    /\ assets = NoAssets
    /\ resolverCalls = << >>
    /\ calls = << >>
    /\ op = "none"
    /\ attempt = 0
    /\ sendLog = << >>
    /\ previousResponseID = ""
    /\ cancelled = FALSE
    /\ parseInput = EmptyStr
    /\ parseResult = NoParse
    /\ sendRes = NoResult
    /\ reply = EmptyStr
    /\ userInput = << >>
    /\ turns = 0
    /\ genRes = NoFiles
    /\ pending = << >>
    /\ written = << >>
    /\ err = EmptyStr

\* the caller invokes Provider.Send
SendCall ==
    /\ pc = "Idle"
    /\ Len(calls) < MaxSends
    /\ \E message \in SendMessages, systemPrompt \in SendInstructions :
         StartSend("Send", message, systemPrompt)
    /\ UNCHANGED <<sel, issues, assets, resolverCalls, previousResponseID, cancelled, parseInput, parseResult, sendRes,
                   reply, userInput, turns, genRes, pending, written, err>>

\* Provider.Send hands its result to the caller
SendReturn ==
    /\ pc = "SendReturned" /\ op = "Send"
    /\ pc' = "Idle"
    /\ UNCHANGED <<sel, issues, assets, resolverCalls, calls, op, attempt, sendLog,
                   previousResponseID, cancelled, parseInput, parseResult, sendRes, reply, userInput, turns, genRes,
                   pending, written, err>>

\* the caller's context is cancelled, or its deadline passes
Cancel ==
    /\ ~cancelled
    /\ cancelled' = TRUE
    /\ UNCHANGED <<pc, sel, issues, assets, resolverCalls, calls, op, attempt, sendLog,
                   parseInput, parseResult, previousResponseID, sendRes, reply, userInput,
                   turns, genRes, pending, written, err>>

NextSend ==
    \/ SendCall
    \/ HTTPAttempt
    \/ Backoff
    \/ SendReturn
    \/ Cancel

SpecSend == InitSend /\ [][NextSend]_vars

\* -------------------------------------------------- callers of Engine.Chat
\* messages a caller hands to Engine.Chat
ChatMessages ==
    { EmptyStr, <<" ", "\n">>, <<"a", " ", "chat", " ", "app">>, <<" ", "with", " ", "auth">> }

\* the caller invokes Engine.Chat; userInput holds the message it passed
ChatDirectCall ==
    /\ pc = "Idle"
    /\ Len(calls) < MaxSends
    /\ \E message \in ChatMessages :
         /\ userInput' = <<message>>
         /\ ChatCall(message, EmptyStr)
    /\ UNCHANGED <<sel, issues, assets, resolverCalls, previousResponseID, cancelled,
                   parseInput, parseResult, sendRes, reply, genRes, pending, written>>

\* Engine.Chat hands the reply or the error of Provider.Send to the caller
ChatDirectReturn ==
    /\ pc = "SendReturned" /\ op = "Chat"
    /\ reply' = sendRes.text
    /\ pc' = "Idle"
    /\ UNCHANGED <<sel, issues, assets, resolverCalls, calls, op, attempt, sendLog,
                   previousResponseID, cancelled, parseInput, parseResult, sendRes, userInput,
                   turns, genRes, pending, written, err>>

NextChat ==
    \/ ChatDirectCall
    \/ HTTPAttempt
    \/ Backoff
    \/ ChatDirectReturn

SpecChat == InitSend /\ [][NextChat]_vars

\* ---------------------------------------------------------- parser calls
\* ParseSelection and ParseFileOutput called on their own, as the package
\* tests call them, on one text.

\* most entries of an addon_ids or asset_ids list of a reply
MaxRawIDs == 3

\* profile_id, addon_ids and asset_ids values as a model may write them:
\* padded, prefixed, blank, repeated
RawProfileIDs ==
    { EmptyStr, <<"ruby-rails">>, <<" ", "ruby-rails", "\n">>,
      ProfilePrefix \o <<"typescript-nextjs">>,
      <<" ">> \o ProfilePrefix \o <<"go-service", " ">>,
      ProfilePrefix \o ProfilePrefix \o <<"ruby-rails">>,
      ProfilePrefix \o <<" ", "ruby-rails", " ">>,
      ProfilePrefix,
      AddonPrefix \o <<"ruby-rails">> }

RawAddonEntries ==
    { EmptyStr, <<" ">>, DataIntensive, AddonPrefix \o DataIntensive,
      <<" ">> \o DataIntensive \o <<" ">>, FrontendCraft, AddonPrefix,
      AddonPrefix \o AddonPrefix \o FrontendCraft }

RawAssetEntries ==
    { EmptyStr, <<" ">>, LintStrict, <<" ">> \o LintStrict \o <<" ">>,
      ProfilePrefix \o <<"ruby-rails">>, <<" ">> \o AddonPrefix \o DataIntensive,
      AddonPrefix \o DataIntensive, PaletteHeroui }

\* every profile_id beside short lists, and every list beside one profile_id
RawSelections ==
    { MkSelection(p, a, s, 90) :
        p \in RawProfileIDs,
        a \in ListsUpTo(RawAddonEntries, 1),
        s \in {<< >>, <<LintStrict>>} }
    \cup { MkSelection(<<"ruby-rails">>, a, << >>, 72) :
             a \in ListsUpTo(RawAddonEntries, MaxRawIDs) }
    \cup { MkSelection(<<"ruby-rails">>, <<FrontendCraft>>, s, 90) :
             s \in ListsUpTo(RawAssetEntries, MaxRawIDs) }

\* the texts handed to ParseSelection: an object bare, fenced, or inside
\* prose, and texts without an object
SelectionTexts ==
    { EncodeSelection(s) : s \in RawSelections }
    \cup { <<Fence, "json", "\n">> \o EncodeSelection(s) \o <<"\n", Fence>> :
             s \in {r \in RawSelections : r.ProfileID = ProfilePrefix \o <<"typescript-nextjs">>} }
    \cup { <<"Sure", " ">> \o EncodeSelection(s) \o <<" ", "done">> :
             s \in {r \in RawSelections : r.AddonIDs = << >>} }
    \cup ExtractReplies
    \cup { EmptyStr, <<" ", "\n">>, <<"}", " ", "{">>, <<Fence, "json", "\n", Fence>> }

\* most blocks of a generation reply
MaxBlocks == 2

\* the parts blocks are made of: a path, padded or not, and a content
BlockPaths == { <<".github", "/", "copilot-instructions.md">>, <<" ", "AGENTS.md", " ">> }
BlockContents == { <<"\n", "# Rules", "\n", "Be kind", "\n">>, EmptyStr, <<"a", "===", "b">> }
Blocks == [path : BlockPaths, content : BlockContents]

\* a well-formed block: start marker with path, content, end marker
BlockText(b) == startMark \o b.path \o markerClose \o b.content \o endMark

\* what may precede the blocks, and what may follow them: nothing, or a start
\* marker that no end marker follows
Leads == { EmptyStr, <<"Here", " ", "you", " ", "go", "\n">> }
OpenTails ==
    { startMark \o <<"README.md">> \o markerClose \o <<"\n", "# cut", " ", "off">>,
      <<"\n">> \o startMark \o <<"README.md">> }

RECURSIVE BlocksText(_)
BlocksText(bs) ==
    IF bs = << >> THEN << >>
    ELSE BlockText(Head(bs)) \o (IF Len(bs) > 1 THEN <<"\n">> ELSE << >>)
           \o BlocksText(Tail(bs))

FileText(lead, bs, tail) == lead \o BlocksText(bs) \o tail

\* texts without any start marker
MarkerlessTexts ==
    { EmptyStr, <<"No", " ", "file", " ", "blocks", " ", "here">>,
      endMark, <<"FILE: ", "AGENTS.md">> \o markerClose \o <<"x">> \o endMark }

\* the texts handed to ParseFileOutput
FileTexts ==
    { FileText(lead, bs, tail) :
        lead \in Leads, bs \in ListsUpTo(Blocks, MaxBlocks), tail \in {EmptyStr} \cup OpenTails }
    \cup MarkerlessTexts \cup GenerateReplies

\* what may stand in front of the readiness marker of a reply
ReadyLeads == { EmptyStr, <<" ", "\n">>, <<"Great", " ", "choice", "\n">>, <<"not", " ">> }

\* the marker of a reply in its spellings, and what falls short of it
ReadyCores ==
    { EmptyStr,
      <<"READY_TO_GENERATE">>, <<"ready_to_generate">>, <<"Ready_To_Generate">>,
      <<"READY", " ", "TO", " ", "GENERATE">>, <<"ready", " ", "to", " ", "generate">>,
      <<"ready", " ", " ", "to", " ", "generate">>, <<"ready", "\n", "to", "\n", "generate">>,
      <<"ready", " ", "to">>, <<"ready", "to", "generate">>,
      <<"Still", " ", "thinking">> }

\* what may follow it
ReadyTails == { EmptyStr, <<"\n">>, <<" ", "thinking">> }

\* replies handed to IsReady
ReadyTexts == { l \o c \o t : l \in ReadyLeads, c \in ReadyCores, t \in ReadyTails }

InitParse ==
    /\ \/ pc = "CallParseSelection" /\ parseInput \in SelectionTexts
       \/ pc = "CallParseFileOutput" /\ parseInput \in FileTexts
       \/ pc = "CallIsReady" /\ parseInput \in ReadyTexts
    /\ parseResult = NoParse
    /\ sel = NoSelection
    /\ issues = << >>
    /\ assets = NoAssets
    /\ resolverCalls = << >>
    /\ calls = << >>
    /\ op = "none"
    /\ attempt = 0
    /\ sendLog = << >>
    /\ previousResponseID = ""
    /\ cancelled = FALSE
    /\ sendRes = NoResult
    /\ reply = EmptyStr
    /\ userInput = << >>
    /\ turns = 0
    /\ genRes = NoFiles
    /\ pending = << >>
    /\ written = << >>
    /\ err = EmptyStr

\* a direct call of ParseSelection
ParseSelectionCall ==
    /\ pc = "CallParseSelection"
    /\ LET r == parseSelection(parseInput) IN
         parseResult' = [ok |-> r.ok, sel |-> r.sel, files |-> << >>, err |-> r.err]
    /\ pc' = "ParseSelectionReturned"
    /\ UNCHANGED <<sel, issues, assets, resolverCalls, calls, op, attempt, sendLog,
                   previousResponseID, cancelled, parseInput, sendRes, reply, userInput,
                   turns, genRes, pending, written, err>>

\* a direct call of ParseFileOutput
ParseFileOutputCall ==
    /\ pc = "CallParseFileOutput"
    /\ parseResult' = [ok |-> TRUE, sel |-> << >>, files |-> parseFileOutput(parseInput),
                       err |-> EmptyStr]
    /\ pc' = "ParseFileOutputReturned"
    /\ UNCHANGED <<sel, issues, assets, resolverCalls, calls, op, attempt, sendLog,
                   previousResponseID, cancelled, parseInput, sendRes, reply, userInput,
                   turns, genRes, pending, written, err>>

\* a direct call of IsReady; ok holds the boolean it returned
IsReadyCall ==
    /\ pc = "CallIsReady"
    /\ parseResult' = [ok |-> IsReady(parseInput), sel |-> << >>, files |-> << >>,
                       err |-> EmptyStr]
    /\ pc' = "IsReadyReturned"
    /\ UNCHANGED <<sel, issues, assets, resolverCalls, calls, op, attempt, sendLog,
                   previousResponseID, cancelled, parseInput, sendRes, reply, userInput,
                   turns, genRes, pending, written, err>>

NextParse ==
    \/ ParseSelectionCall
    \/ ParseFileOutputCall
    \/ IsReadyCall

SpecParse == InitParse /\ [][NextParse]_vars

\* ------------------------------------------------------------ properties
\* number of entries of list equal to x
Occurrences(list, x) == Cardinality({i \in DOMAIN list : list[i] = x})

\* number of entries of list that start with prefix
WithPrefix(list, prefix) == Cardinality({i \in DOMAIN list : HasPrefix(list[i], prefix)})

\* positions of a direct caller once GenerateFiles has been entered
InGenerate == {"Sending", "Backoff", "SendReturned", "GenerateReturned"}

\* the four core IDs
CoreIDs ==
    { <<"core.", "copilot">>, <<"core.", "architecture">>,
      <<"core.", "agents">>, <<"core.", "design-system">> }

\* the exclusive categories, each with the ID prefix that places an asset in
\* it and the issue the validator reports for it
ExclusiveCategories ==
    { [prefix |-> <<"asset.", "palette.">>, issue |-> <<"only one palette asset may be selected">>],
      [prefix |-> <<"asset.", "fonts.">>, issue |-> <<"only one font asset may be selected">>],
      [prefix |-> <<"asset.", "lint">>, issue |-> <<"only one linting asset may be selected">>],
      [prefix |-> <<"asset.", "testing.">>, issue |-> <<"only one testing asset may be selected">>] }

\* C1: gate ordering. A Selection whose ProfileID is not a known profile (the
\* empty ID included) gets at least one issue from
\* ValidateSelectionCompatibility, and GenerateFiles called on it returns an
\* error, and has invoked neither resolveContextAssets nor Provider.Send.
C1_GateOrdering ==
    (sel # NoSelection /\ sel[1].ProfileID \notin validProfile) =>
        /\ pc = "ValidateReturned" => Len(issues) >= 1
        /\ pc \in InGenerate =>
              /\ pc = "GenerateReturned"
              /\ ~genRes.ok
              /\ genRes.err # EmptyStr
              /\ genRes.files = << >>
              /\ resolverCalls = << >>
              /\ calls = << >>

\* GenerateFiles has refused an unknown profile at the validator, the
\* confidence being high enough to get there
C1_Witness ==
    /\ pc = "GenerateReturned"
    /\ sel # NoSelection
    /\ sel[1].ProfileID = <<"cobol-mainframe">>
    /\ sel[1].Confidence >= confidenceThreshold
    /\ ~genRes.ok
    /\ Contains(genRes.err, IssueProfileUnsupported)
    /\ resolverCalls = << >>

C3_OneIssuePerDuplicate ==
    (pc = "ValidateReturned" /\ sel[1].ProfileID \in validProfile) =>
        /\ \A id \in Range(sel[1].AddonIDs) \ {EmptyStr} :
              Occurrences(sel[1].AddonIDs, id) >= 2 =>
                  Occurrences(issues, <<"duplicate addon_id: ">> \o id) = 1
        /\ \A id \in Range(sel[1].AssetIDs) \ {EmptyStr} :
              Occurrences(sel[1].AssetIDs, id) >= 2 =>
                  Occurrences(issues, <<"duplicate asset_id: ">> \o id) = 1

\* C3, amended: with a known profile, a non-empty entry that occurs n times in
\* AddonIDs (or in AssetIDs) is reported by exactly n - 1 duplicate issues
\* naming it, one for each occurrence after the first (exactly one when n = 2),
\* and no other duplicate issue is reported.
C3_OneIssuePerRepeat ==
    (pc = "ValidateReturned" /\ sel[1].ProfileID \in validProfile) =>
        /\ \A id \in Range(sel[1].AddonIDs) \ {EmptyStr} :
              Occurrences(issues, <<"duplicate addon_id: ">> \o id)
                  = Occurrences(sel[1].AddonIDs, id) - 1
        /\ \A id \in Range(sel[1].AssetIDs) \ {EmptyStr} :
              Occurrences(issues, <<"duplicate asset_id: ">> \o id)
                  = Occurrences(sel[1].AssetIDs, id) - 1
        /\ \A i \in DOMAIN issues :
              /\ HasPrefix(issues[i], <<"duplicate addon_id: ">>) =>
                    TrimPrefix(issues[i], <<"duplicate addon_id: ">>)
                        \in Range(sel[1].AddonIDs) \ {EmptyStr}
              /\ HasPrefix(issues[i], <<"duplicate asset_id: ">>) =>
                    TrimPrefix(issues[i], <<"duplicate asset_id: ">>)
                        \in Range(sel[1].AssetIDs) \ {EmptyStr}

\* the validator has returned for a list that holds one addon three times
C3_Witness ==
    /\ pc = "ValidateReturned"
    /\ sel[1].ProfileID \in validProfile
    /\ \E id \in Range(sel[1].AddonIDs) \ {EmptyStr} :
          /\ Occurrences(sel[1].AddonIDs, id) = 3
          /\ Occurrences(issues, <<"duplicate addon_id: ">> \o id) = 2

\* C4, as stated: with a known profile and no addons, AssetIDs made of two
\* distinct IDs of one exclusive category yields exactly one issue, and
\* AssetIDs with at most one entry per exclusive category yields none.
C4_CategoryCapOnly ==
    ( /\ pc = "ValidateReturned"
      /\ sel[1].ProfileID \in validProfile
      /\ sel[1].AddonIDs = << >> ) =>
        LET ids == sel[1].AssetIDs IN
        /\ \A c \in ExclusiveCategories :
              ( /\ Len(ids) = 2
                /\ ids[1] # ids[2]
                /\ HasPrefix(ids[1], c.prefix)
                /\ HasPrefix(ids[2], c.prefix) ) => Len(issues) = 1
        /\ (\A c \in ExclusiveCategories : WithPrefix(ids, c.prefix) <= 1) => issues = << >>

\* C4, amended: with a known profile and no addons, AssetIDs made of two
\* distinct IDs of one exclusive category (palette, fonts, linting, testing)
\* yields exactly one issue, the one of that category, and AssetIDs of pairwise
\* distinct entries with at most one per exclusive category yields none.
C4_CategoryCapDistinct ==
    ( /\ pc = "ValidateReturned"
      /\ sel[1].ProfileID \in validProfile
      /\ sel[1].AddonIDs = << >> ) =>
        LET ids == sel[1].AssetIDs IN
        /\ \A c \in ExclusiveCategories :
              ( /\ Len(ids) = 2
                /\ ids[1] # ids[2]
                /\ HasPrefix(ids[1], c.prefix)
                /\ HasPrefix(ids[2], c.prefix) ) => issues = <<c.issue>>
        /\ ( /\ \A i, j \in DOMAIN ids : i # j => ids[i] # ids[j]
             /\ \A c \in ExclusiveCategories : WithPrefix(ids, c.prefix) <= 1 )
              => issues = << >>

\* the validator has returned for two different linting assets
C4_Witness ==
    /\ pc = "ValidateReturned"
    /\ sel[1].ProfileID \in validProfile
    /\ sel[1].AddonIDs = << >>
    /\ sel[1].AssetIDs = <<LintStrict, LintRelaxed>>
    /\ issues = <<IssueLint>>

\* C5: frontend-craft is UI-only. For every profile p the validator knows,
\* the Selection {ProfileID: p, AddonIDs: [frontend-craft]} yields exactly one
\* issue, the incompatible addon, when the registry gives p no UI surface
\* (HasUI = false), and no issue when it gives p one (HasUI = true).
C5_FrontendCraftUIOnly ==
    ( /\ pc = "ValidateReturned"
      /\ sel[1].ProfileID \in validProfile
      /\ sel[1].AddonIDs = <<FrontendCraft>>
      /\ sel[1].AssetIDs = << >> ) =>
        /\ FindProfile(sel[1].ProfileID).found
        /\ IF FindProfile(sel[1].ProfileID).HasUI
           THEN issues = << >>
           ELSE issues = << <<"addon_id not compatible with selected profile: ",
                              "frontend-craft">> >>

\* the validator has refused frontend-craft on go-service with one issue
C5_Witness ==
    /\ pc = "ValidateReturned"
    /\ sel[1].ProfileID = <<"go-service">>
    /\ sel[1].AddonIDs = <<FrontendCraft>>
    /\ sel[1].AssetIDs = << >>
    /\ ~FindProfile(sel[1].ProfileID).HasUI
    /\ Len(issues) = 1

\* C6, as stated: all profiles can use data-intensive. For every profile p the
\* validator knows, the Selection {ProfileID: p, AddonIDs: [data-intensive]}
\* passes ValidateSelectionCompatibility with no issue.
C6_DataIntensiveEverywhere ==
    ( /\ pc = "ValidateReturned"
      /\ sel[1].ProfileID \in validProfile
      /\ sel[1].AddonIDs = <<DataIntensive>>
      /\ sel[1].AssetIDs = << >> ) => issues = << >>

\* the issues the rules (a) to (e) demand for a Selection, blank entries aside
ExpectedIssues(s) ==
    (IF s.ProfileID = EmptyStr THEN {<<"profile_id is required">>}
     ELSE IF s.ProfileID \notin validProfile
     THEN {<<"profile_id is not supported by this Launchpad build">>}
     ELSE {})
    \cup { <<"addon_id not compatible with selected profile: ">> \o id :
             id \in { a \in Range(s.AddonIDs) \ {EmptyStr} :
                        \/ s.ProfileID \notin DOMAIN allowedAddonsByProfile
                        \/ a \notin allowedAddonsByProfile[s.ProfileID] } }
    \cup { <<"duplicate addon_id: ">> \o id :
             id \in { a \in Range(s.AddonIDs) \ {EmptyStr} : Occurrences(s.AddonIDs, a) >= 2 } }
    \cup { <<"duplicate asset_id: ">> \o id :
             id \in { a \in Range(s.AssetIDs) \ {EmptyStr} : Occurrences(s.AssetIDs, a) >= 2 } }
    \cup { c.issue :
             c \in { x \in ExclusiveCategories :
                       Cardinality({a \in Range(s.AssetIDs) : HasPrefix(a, x.prefix)}) >= 2 } }

\* C7, as stated: the issue list of ValidateSelectionCompatibility holds an
\* issue for every violated rule among (a) to (e), and the error of
\* GenerateFiles carries every one of those issues.
C7_AllIssuesEverywhere ==
    /\ pc = "ValidateReturned" => ExpectedIssues(sel[1]) \subseteq Range(issues)
    /\ (pc \in InGenerate /\ sel # NoSelection /\ ExpectedIssues(sel[1]) # {}) =>
          /\ pc = "GenerateReturned"
          /\ ~genRes.ok
          /\ \A e \in ExpectedIssues(sel[1]) : Contains(genRes.err, e)

\* C7, amended: the issue list of ValidateSelectionCompatibility holds an issue
\* for every violated rule among (a) to (e), blank entries being ignored by
\* every rule, and no violation suppresses the report of another; the error of
\* GenerateFiles carries every one of those issues when the Selection has a
\* non-empty ProfileID and a Confidence of at least 0.72, and otherwise is the
\* "no stack selected" or the confidence error, raised before the validator
\* is consulted.
C7_AllIssuesPastTheGates ==
    /\ pc = "ValidateReturned" => ExpectedIssues(sel[1]) \subseteq Range(issues)
    /\ (pc \in InGenerate /\ sel # NoSelection /\ ExpectedIssues(sel[1]) # {}) =>
          /\ pc = "GenerateReturned"
          /\ ~genRes.ok
          /\ IF sel[1].ProfileID = EmptyStr
             THEN genRes.err = <<"no stack selected">>
             ELSE IF sel[1].Confidence < 72
             THEN HasPrefix(genRes.err, <<"confidence ">>) /\ issues = << >>
             ELSE /\ HasPrefix(genRes.err, <<"incompatible selection: ">>)
                  /\ \A e \in ExpectedIssues(sel[1]) : Contains(genRes.err, e)

\* GenerateFiles has refused a Selection that breaks four rules at once
C7_Witness ==
    /\ pc = "GenerateReturned"
    /\ sel # NoSelection
    /\ sel[1].Confidence >= 72
    /\ Cardinality(ExpectedIssues(sel[1])) >= 4
    /\ \A e \in ExpectedIssues(sel[1]) : Contains(genRes.err, e)

\* the confidence error tells the user to add detail
AddDetail == <<"try describing your project in more detail">>

\* C8, as stated: GenerateFiles on a Selection with Confidence below 0.72
\* returns an error telling the user to add detail, without resolving assets,
\* calling Provider.Send or producing a file; Confidence 0.72 is not refused
\* by the gate.
C8_LowConfidenceAsksForDetail ==
    (pc \in InGenerate /\ sel # NoSelection) =>
        /\ sel[1].Confidence < 72 =>
              /\ pc = "GenerateReturned"
              /\ ~genRes.ok
              /\ Contains(genRes.err, AddDetail)
              /\ genRes.files = << >>
              /\ resolverCalls = << >>
              /\ calls = << >>
        /\ sel[1].Confidence = 72 => ~Contains(genRes.err, <<" is below minimum ">>)

\* C8, amended: GenerateFiles on a Selection with Confidence below 0.72
\* returns an error without resolving assets, calling Provider.Send or
\* producing a file; the error tells the user to add detail when the ProfileID
\* is non-empty, and is "no stack selected" when it is empty. Confidence 0.72
\* is not refused by the gate: a Selection with it that validates and resolves
\* reaches Provider.Send.
C8_ConfidenceGate ==
    (pc \in InGenerate /\ sel # NoSelection) =>
        /\ sel[1].Confidence < 72 =>
              /\ pc = "GenerateReturned"
              /\ ~genRes.ok
              /\ IF sel[1].ProfileID # EmptyStr
                 THEN Contains(genRes.err, AddDetail)
                 ELSE genRes.err = <<"no stack selected">>
              /\ genRes.files = << >>
              /\ resolverCalls = << >>
              /\ calls = << >>
        /\ sel[1].Confidence = 72 =>
              /\ ~Contains(genRes.err, <<" is below minimum ">>)
              /\ ( /\ sel[1].ProfileID # EmptyStr
                   /\ ValidateSelectionCompatibility(sel[1]) = << >>
                   /\ resolveContextAssets(sel[1]).ok ) => Len(calls) = 1

\* GenerateFiles has refused an otherwise valid Selection for its confidence
C8_Witness ==
    /\ pc = "GenerateReturned"
    /\ sel # NoSelection
    /\ sel[1].Confidence < 72
    /\ sel[1].ProfileID \in validProfile
    /\ ValidateSelectionCompatibility(sel[1]) = << >>
    /\ Contains(genRes.err, AddDetail)
    /\ calls = << >>

\* the operations of the Provider calls made so far, in call order
CalledOps == [i \in DOMAIN calls |-> calls[i].op]

\* position of an operation in the pipeline
Rank(o) == CASE o = "Chat" -> 1 [] o = "Extract" -> 2 [] o = "Generate" -> 3

\* the calls so far are one or more Chat calls, then at most one
\* ExtractDecision call, then at most one GenerateFiles call, and files are
\* written only from a non-empty list GenerateFiles returned
PipelineOrder ==
    /\ calls # << >> => CalledOps[1] = "Chat"
    /\ \A i \in 1..(Len(calls) - 1) :
          IF CalledOps[i] = "Chat" THEN CalledOps[i + 1] \in {"Chat", "Extract"}
          ELSE CalledOps[i] = "Extract" /\ CalledOps[i + 1] = "Generate"
    /\ (\E i \in DOMAIN calls : CalledOps[i] = "Extract") => reply # EmptyStr
    /\ (\E i \in DOMAIN calls : CalledOps[i] = "Generate") => sel # NoSelection
    /\ written # << >> =>
          /\ CalledOps[Len(calls)] = "Generate"
          /\ genRes.ok
          /\ Len(genRes.files) >= Len(written)
    /\ pc = "Failed" => err # EmptyStr

\* a step taken when an operation has returned an error ends the run, and
\* makes no Provider call and writes no file; an ended run takes no step
FailFast ==
    /\ (pc = "SendReturned" /\ ~sendRes.ok) =>
          /\ IF op = "Generate" THEN pc' = "GenerateReturned" /\ ~genRes'.ok
             ELSE pc' = "Failed"
          /\ calls' = calls /\ written' = written /\ pending' = pending
    /\ (pc = "SendReturned" /\ op = "Extract" /\ sendRes.ok
          /\ ~parseSelection(sendRes.text).ok) =>
          pc' = "Failed" /\ calls' = calls /\ written' = written
    /\ (pc = "GenerateReturned" /\ (~genRes.ok \/ genRes.files = << >>)) =>
          pc' = "Failed" /\ calls' = calls /\ written' = written /\ pending' = pending
    /\ pc = "Failed" => UNCHANGED vars
    /\ pc' = "Failed" => calls' = calls /\ written' = written

\* C9: pipeline ordering and fail-fast. In every run the Provider calls are
\* one or more Chat calls, then at most one ExtractDecision call, then at most
\* one GenerateFiles call, and file writes come only after GenerateFiles
\* returned a non-empty file list; as soon as a step returns an error the run
\* ends, with no further Provider call and no further file written.
C9_PipelineOrderFailFast == []PipelineOrder /\ [][FailFast]_vars

\* a run has ended after two Chat calls, the extraction, the generation and
\* two file writes
C9_Witness ==
    /\ pc = "Done"
    /\ CalledOps = <<"Chat", "Chat", "Extract", "Generate">>
    /\ Len(written) = 2

Attempts == SelectSeq(sendLog, LAMBDA e : e.event # "slept")

\* the Send that made the latest request is over
Returned == calls # << >> /\ attempt = 0

\* C11: one Send makes at most 3 HTTP attempts; an attempt is followed by
\* another only when it ended in HTTP 429; any other non-2xx status ends the
\* Send with the API error after that attempt; a third 429 in a row ends it
\* with the rate-limit error.
C11_BoundedRetryClassification ==
    /\ Len(Attempts) <= 3
    /\ \A i \in 1..Len(Attempts) : Attempts[i].attempt = i
    /\ \A i \in 1..(Len(Attempts) - 1) : Attempts[i].event = "429"
    /\ \A i \in 1..Len(Attempts) :
         Attempts[i].event = "status" =>
             /\ Returned
             /\ ~sendRes.ok
             /\ sendRes.err = ErrAPIStatus
    /\ (Len(Attempts) = 3 /\ Attempts[3].event = "429") =>
             \/ pc = "Backoff" /\ attempt = 3
             \/ Returned /\ ~sendRes.ok /\ sendRes.err = ErrRateLimited

\* the second Send of a caller, rate limited at each of its three attempts
C11_Witness ==
    /\ Returned
    /\ Len(calls) = 2
    /\ Len(Attempts) = 3
    /\ Attempts[3].event = "429"
    /\ sendRes.err = ErrRateLimited
    /\ ~cancelled

\* the cursor as a function of the latest Send: the ID of its response when
\* it succeeded, the value its request carried while it runs or when it failed
CursorState ==
    IF calls = << >> THEN previousResponseID = ""
    ELSE IF Returned /\ sendRes.ok
    THEN /\ sendLog # << >>
         /\ sendLog[Len(sendLog)].event = "ok"
         /\ previousResponseID = sendLog[Len(sendLog)].id
    ELSE previousResponseID = calls[Len(calls)].previous_response_id

\* a step builds at most one request, which carries the cursor; the cursor
\* moves only on the step that returns a text, to the ID of that response
CursorStep ==
    /\ calls' # calls =>
         /\ Len(calls') = Len(calls) + 1
         /\ SubSeq(calls', 1, Len(calls)) = calls
         /\ calls'[Len(calls')].previous_response_id = previousResponseID
         /\ previousResponseID' = previousResponseID
    /\ (attempt # 0 /\ attempt' = 0 /\ ~sendRes'.ok) => previousResponseID' = previousResponseID
    /\ previousResponseID' # previousResponseID =>
         /\ attempt # 0 /\ attempt' = 0 /\ sendRes'.ok
         /\ previousResponseID' = sendLog'[Len(sendLog')].id

\* C12: previousResponseID is the ID of the response of the most recent
\* successful Send, "" when none succeeded; a failed Send leaves it as it was;
\* every request carries its value as previous_response_id.
C12_CursorInvariant == []CursorState /\ [][CursorStep]_vars

\* a first Send answered with an ID, a second answered without one, and a
\* third that drew an empty text from a response with an ID: the cursor is
\* still the one the second Send left
C12_Witness ==
    /\ Returned
    /\ Len(calls) = 3
    /\ ~sendRes.ok
    /\ sendRes.err = ErrEmptyResponse
    /\ sendLog[Len(sendLog)].id = "resp_a"
    /\ previousResponseID = ""
    /\ calls[2].previous_response_id = "resp_a"
    /\ calls[3].previous_response_id = ""

\* the step ends the Send in flight with an error, without a sleep run to
\* its end and without another attempt
Aborts ==
    /\ pc' = "SendReturned"
    /\ attempt' = 0
    /\ ~sendRes'.ok
    /\ \A i \in (Len(sendLog) + 1)..Len(sendLog') : sendLog'[i].event # "slept"

\* the half of C13 about the request in flight: with the context done, the
\* round trip ends the Send with the context's error
InFlightCancellationHonored ==
    [][(cancelled /\ pc = "Sending") => Aborts /\ sendRes'.err = ErrContextCanceled]_vars

\* C13: once the caller's context is cancelled while a request is in flight
\* or while Send waits in the backoff delay, the next thing Send does is to
\* return an error: it neither finishes the wait nor issues another attempt.
C13_CancellationHonored ==
    [][(cancelled /\ pc \in {"Sending", "Backoff"}) => Aborts]_vars

\* the JSON object of the text under parse, as json.Unmarshal decodes it
Decoded == Unmarshal(cleanSelectionText(parseInput))

\* ParseSelection returned a Selection
ParsedSelection == pc = "ParseSelectionReturned" /\ parseResult.ok

\* the entries of list at the positions in keep, in order, from position i on
RECURSIVE PickFrom(_, _, _)
PickFrom(list, keep, i) ==
    IF i > Len(list) THEN << >>
    ELSE (IF i \in keep THEN <<list[i]>> ELSE << >>) \o PickFrom(list, keep, i + 1)

\* the entries of list that are not empty, first occurrences only
FirstOccurrences(list) ==
    PickFrom(list,
             {i \in DOMAIN list : list[i] # EmptyStr /\ \A j \in 1..(i - 1) : list[j] # list[i]},
             1)

\* C14: the AddonIDs ParseSelection returns is the addon_ids list of the
\* reply with each entry trimmed and then relieved of its addon. prefix,
\* without the entries that end up empty and without later duplicates, the
\* first occurrences in their original order.
C14_AddonNormalization ==
    ParsedSelection =>
        parseResult.sel[1].AddonIDs =
            FirstOccurrences([i \in DOMAIN Decoded.sel.AddonIDs |->
                                TrimPrefix(TrimSpace(Decoded.sel.AddonIDs[i]), AddonPrefix)])

\* the reply of the package test: a prefixed addon twice, then a plain one
C14_Witness ==
    /\ ParsedSelection
    /\ Decoded.sel.AddonIDs =
         <<AddonPrefix \o DataIntensive, AddonPrefix \o DataIntensive, FrontendCraft>>
    /\ parseResult.sel[1].AddonIDs = <<DataIntensive, FrontendCraft>>

\* an entry that looks like a profile or addon ID
LooksLikeProfileOrAddon(id) == HasPrefix(id, ProfilePrefix) \/ HasPrefix(id, AddonPrefix)

\* the list holds no empty entry, no profile. or addon. entry, and no repeat
CleanAssetList(list) ==
    /\ \A i \in DOMAIN list : list[i] # EmptyStr /\ ~LooksLikeProfileOrAddon(list[i])
    /\ \A i, j \in DOMAIN list : list[i] = list[j] => i = j

\* the entries of list that are neither empty nor profile. / addon. IDs,
\* first occurrences only, in order
KeptAssets(list) ==
    PickFrom(list,
             {i \in DOMAIN list :
                 /\ list[i] # EmptyStr
                 /\ ~LooksLikeProfileOrAddon(list[i])
                 /\ \A j \in 1..(i - 1) : list[j] # list[i]},
             1)

\* C15 as stated: the AssetIDs ParseSelection returns holds no empty entry,
\* no entry prefixed profile. or addon., and no duplicate, and every other
\* entry of asset_ids is kept verbatim in first-occurrence order.
C15_AssetsVerbatim ==
    ParsedSelection =>
        /\ CleanAssetList(parseResult.sel[1].AssetIDs)
        /\ parseResult.sel[1].AssetIDs = KeptAssets(Decoded.sel.AssetIDs)

\* C15, amended: the AssetIDs ParseSelection returns holds no empty entry,
\* no entry prefixed profile. or addon., and no duplicate, and every other
\* entry of asset_ids is kept, trimmed of surrounding whitespace, in
\* first-occurrence order; emptiness, prefixes and repeats are judged on the
\* trimmed entry.
C15_AssetsTrimmed ==
    ParsedSelection =>
        /\ CleanAssetList(parseResult.sel[1].AssetIDs)
        /\ parseResult.sel[1].AssetIDs =
             KeptAssets([i \in DOMAIN Decoded.sel.AssetIDs |->
                           TrimSpace(Decoded.sel.AssetIDs[i])])

\* a padded asset, a profile ID and the same asset unpadded: one entry is
\* returned, without the padding
C15_Witness ==
    /\ ParsedSelection
    /\ Decoded.sel.AssetIDs =
         << <<" ">> \o LintStrict \o <<" ">>, ProfilePrefix \o <<"ruby-rails">>, LintStrict >>
    /\ parseResult.sel[1].AssetIDs = <<LintStrict>>

\* C16: when the profile_id of the reply is profile. followed by X, surrounding
\* whitespace aside, ParseSelection returns ProfileID X; a profile_id without
\* the prefix is returned as it is, trimmed.
C16_ProfilePrefixStripped ==
    ParsedSelection =>
        LET id == TrimSpace(Decoded.sel.ProfileID) IN
        IF HasPrefix(id, ProfilePrefix)
        THEN ProfilePrefix \o parseResult.sel[1].ProfileID = id
        ELSE parseResult.sel[1].ProfileID = id

\* the reply of the package test: profile.typescript-nextjs inside a fence
C16_Witness ==
    /\ ParsedSelection
    /\ Contains(parseInput, <<Fence>>)
    /\ Decoded.sel.ProfileID = ProfilePrefix \o <<"typescript-nextjs">>
    /\ parseResult.sel[1].ProfileID = <<"typescript-nextjs">>

\* the Provider calls made for the operation o
CallsOf(o) == {i \in DOMAIN calls : calls[i].op = o}

\* the error parseSelection returns for the text raw
ParseError(raw) == <<"parse selection: ", "\n", "raw output: ">> \o raw

\* ExtractDecision is over and its Send returned a text
Extracted ==
    /\ op = "Extract"
    /\ pc \notin {"Sending", "Backoff", "SendReturned"}
    /\ sendRes.ok

\* the half of C17 about the parser called on its own: a text without an
\* object that decodes, the empty text included, gets an error that carries
\* the text, and no Selection
ParseFailureCarriesRaw ==
    (pc = "ParseSelectionReturned" /\ ~Decoded.ok) =>
        /\ ~parseResult.ok
        /\ parseResult.sel = NoSelection
        /\ parseResult.err = ParseError(parseInput)

\* C17: a run makes at most one Provider call for ExtractDecision; when the
\* reply of that call holds no JSON object that decodes, the run has failed
\* with the parse error, which carries the reply as it was, no Selection
\* exists, and nothing is sent to the Provider afterwards.
C17_ExtractionFailureTerminal ==
    /\ Cardinality(CallsOf("Extract")) <= 1
    /\ (Extracted /\ ~Unmarshal(cleanSelectionText(sendRes.text)).ok) =>
           /\ pc = "Failed"
           /\ err = <<"extracting decision: ">> \o ParseError(sendRes.text)
           /\ sel = NoSelection
           /\ Cardinality(CallsOf("Extract")) = 1
           /\ calls[Len(calls)].op = "Extract"

\* the run ended on a reply in prose
C17_Witness ==
    /\ Extracted
    /\ sendRes.text = <<"I", " ", "cannot", " ", "decide">>
    /\ pc = "Failed"
    /\ Contains(err, sendRes.text)
    /\ sel = NoSelection

\* the entry ParseFileOutput owes for the block b
EntryOf(b) == [Path |-> TrimSpace(b.path), Content |-> TrimSpace(b.content)]

C19_LenientTruncation ==
    pc = "ParseFileOutputReturned" =>
        \A lead \in Leads, bs \in ListsUpTo(Blocks, MaxBlocks), tail \in OpenTails :
            parseInput = FileText(lead, bs, tail) =>
                /\ parseResult.ok
                /\ parseResult.err = EmptyStr
                /\ parseResult.files = [i \in DOMAIN bs |-> EntryOf(bs[i])]

\* two blocks, then a README.md block cut off inside its content
C19_Witness ==
    /\ pc = "ParseFileOutputReturned"
    /\ \E bs \in ListsUpTo(Blocks, MaxBlocks) :
         /\ Len(bs) = 2
         /\ parseInput = FileText(EmptyStr, bs,
                startMark \o <<"README.md">> \o markerClose \o <<"\n", "# cut", " ", "off">>)
    /\ Len(parseResult.files) = 2
    /\ \A i \in DOMAIN parseResult.files : parseResult.files[i].Path # <<"README.md">>

\* GenerateFiles is over and its Send returned a text
Generated ==
    /\ op = "Generate"
    /\ pc \notin {"Sending", "Backoff", "SendReturned"}
    /\ sendRes.ok

\* C20: GenerateFiles never returns an empty file list without an error; when
\* the reply to the generation prompt parses to no file, it returns the error
\* "model returned no file blocks" and no list, and the run writes nothing.
C20_ZeroFilesIsFailure ==
    /\ genRes.ok => Len(genRes.files) > 0
    /\ (Generated /\ parseFileOutput(sendRes.text) = << >>) =>
           /\ ~genRes.ok
           /\ genRes.files = << >>
           /\ genRes.err = <<"model returned no file blocks">>
           /\ pc \in {"GenerateReturned", "Failed"}
           /\ pending = << >>
           /\ written = << >>

\* the reply held one block, cut off before its end marker
C20_Witness ==
    /\ Generated
    /\ Contains(sendRes.text, startMark)
    /\ parseFileOutput(sendRes.text) = << >>
    /\ ~genRes.ok
    /\ pc = "Failed"
    /\ err = <<"generation error: ", "model returned no file blocks">>

\* the IDs of an asset list
IDsOf(list) == {list[i].ID : i \in DOMAIN list}

\* a direct call of resolveContextAssets returned a list
Resolved == pc = "ResolveReturned" /\ assets.ok

\* C21: when resolveContextAssets succeeds on a Selection whose profile has a
\* UI surface, the returned list holds addon.frontend-craft, the palette
\* asset.palette.obsidian-indigo and the fonts asset.fonts.inter-jetbrains,
\* whatever addons and assets the Selection names.
C21_UIAutoInclusion ==
    (Resolved /\ FindProfile(sel[1].ProfileID).HasUI) =>
        {AddonPrefix \o FrontendCraft, PaletteObsidian, FontsInter}
            \subseteq IDsOf(assets.assets)

\* the heading of the design guidance block
DesignHeading == <<"DESIGN SYSTEM SYNTHESIS:">>

\* an asset list holds a palette, a font pairing or the frontend-craft addon
HasVisualAsset(list) ==
    \E id \in IDsOf(list) :
        \/ HasPrefix(id, PalettePrefix)
        \/ HasPrefix(id, FontsPrefix)
        \/ id = AddonPrefix \o FrontendCraft

\* the generation prompts handed to the Provider so far
GenerationPrompts == {calls[i].input : i \in {j \in DOMAIN calls : calls[j].op = "Generate"}}

\* C22 as stated: a generation prompt holds the DESIGN SYSTEM SYNTHESIS block
\* only if the resolved asset list holds a palette, a font pairing or the
\* frontend-craft addon.
C22_DesignBlockOnlyWithVisualAssets ==
    \A prompt \in GenerationPrompts :
        Contains(prompt, DesignHeading) => HasVisualAsset(assets.assets)

\* C22, amended: a generation prompt holds the DESIGN SYSTEM SYNTHESIS block
\* exactly if the resolved asset list holds core.design-system, a palette, a
\* font pairing or the frontend-craft addon; core.design-system is in every
\* resolved list, so every generation prompt holds the block. Inside the
\* block the palette, font and frontend-craft lines appear exactly if an
\* asset of that kind was resolved.
C22_DesignBlockWithDesignSystem ==
    \A prompt \in GenerationPrompts :
        LET ids == IDsOf(assets.assets) IN
        /\ assets.ok
        /\ <<"core.", "design-system">> \in ids
        /\ Contains(prompt, DesignHeading)
        /\ Contains(prompt, <<"- A palette asset is included.">>)
             <=> (\E id \in ids : HasPrefix(id, PalettePrefix))
        /\ Contains(prompt, <<"- A font pairing asset is included.">>)
             <=> (\E id \in ids : HasPrefix(id, FontsPrefix))
        /\ Contains(prompt, <<"- The frontend-craft addon is included.">>)
             <=> (AddonPrefix \o FrontendCraft \in ids)

\* a prompt was sent for a Selection that resolves to no palette, no fonts
\* and no frontend-craft, and it holds the block
C22_Witness ==
    /\ GenerationPrompts # {}
    /\ ~HasVisualAsset(assets.assets)
    /\ \A prompt \in GenerationPrompts : Contains(prompt, DesignHeading)

\* id with prefix in front, unless it starts with it already
Canonical(prefix, id) == IF HasPrefix(id, prefix) THEN id ELSE prefix \o id

\* the combined ID list of a Selection: the core IDs in their fixed order,
\* the prefixed profile if there is one, the prefixed addons, the asset IDs
CombinedIDs(s) ==
    << <<"core.", "copilot">>, <<"core.", "architecture">>,
       <<"core.", "agents">>, <<"core.", "design-system">> >>
      \o (IF s.ProfileID = EmptyStr THEN << >>
          ELSE << Canonical(ProfilePrefix, s.ProfileID) >>)
      \o [i \in DOMAIN s.AddonIDs |-> Canonical(AddonPrefix, s.AddonIDs[i])]
      \o s.AssetIDs

\* the IDs the catalog holds
CatalogIDs == {catalog[i].ID : i \in DOMAIN catalog}

\* positions of the combined list that hold a non-blank ID the catalog lacks
UnknownAt(s) ==
    {i \in DOMAIN CombinedIDs(s) :
        CombinedIDs(s)[i] # EmptyStr /\ CombinedIDs(s)[i] \notin CatalogIDs}

\* C23: when the combined ID list of the Selection holds a non-blank ID that
\* the catalog lacks, resolveContextAssets returns an error naming the first
\* such ID of the list and no asset list; it succeeds only if there is none.
C23_UnknownIDIsHardError ==
    pc = "ResolveReturned" =>
        LET unknown == UnknownAt(sel[1]) IN
        /\ assets.ok <=> unknown = {}
        /\ unknown # {} =>
              /\ assets.assets = << >>
              /\ assets.unknown =
                   CombinedIDs(sel[1])[CHOOSE i \in unknown : \A j \in unknown : i <= j]

\* a known profile with two asset IDs the catalog lacks: the first is named
C23_Witness ==
    /\ pc = "ResolveReturned"
    /\ sel[1].ProfileID = <<"ruby-rails">>
    /\ Len(sel[1].AssetIDs) = 3
    /\ sel[1].AssetIDs[1] = LintStrict
    /\ sel[1].AssetIDs[2] = ServerPatterns
    /\ sel[1].AssetIDs[3] = TestingComprehensive
    /\ ~assets.ok
    /\ assets.unknown = ServerPatterns

\* the IDs of the list the resolver returned, in order
ResolvedSequence == [i \in DOMAIN assets.assets |-> assets.assets[i].ID]

\* what C24 says of a returned list
OrderedFirstOccurrences ==
    Resolved =>
        /\ ResolvedSequence = FirstOccurrences(CombinedIDs(sel[1]))
        /\ \A i \in DOMAIN assets.assets : assets.assets[i] = catalogMap[ResolvedSequence[i]]
        /\ \A i, j \in DOMAIN ResolvedSequence :
              ResolvedSequence[i] = ResolvedSequence[j] => i = j

\* C24: when resolveContextAssets succeeds, the IDs of the returned list are
\* the combined ID list of the Selection (core IDs in fixed order, prefixed
\* profile, prefixed addons in order, asset IDs in order) reduced to the first
\* occurrence of each non-blank ID, each entry being the catalog's asset of
\* that ID; no ID appears twice; and a second call on the same Selection
\* returns the same list as the first.
C24_ResolverOutputOrdered ==
    /\ []OrderedFirstOccurrences
    /\ [][(Resolve /\ resolverCalls # << >>) => assets' = assets]_vars

\* elixir-phoenix with data-intensive, frontend-craft and data-intensive
\* again, resolved twice
C24_Witness ==
    /\ Resolved
    /\ Len(resolverCalls) = 2
    /\ sel[1].ProfileID = <<"elixir-phoenix">>
    /\ sel[1].AddonIDs = <<DataIntensive, FrontendCraft, DataIntensive>>
    /\ sel[1].AssetIDs = << >>
    /\ ResolvedSequence =
         << <<"core.", "copilot">>, <<"core.", "architecture">>, <<"core.", "agents">>,
            <<"core.", "design-system">>, ProfilePrefix \o <<"elixir-phoenix">>,
            AddonPrefix \o DataIntensive, AddonPrefix \o FrontendCraft >>

\* the reply holds the sentinel READY_TO_GENERATE in some casing
HoldsSentinel(text) == Contains(ToUpper(text), <<"READY_TO_GENERATE">>)

\* the reply holds the words ready to generate, one space between them, in
\* some casing
HoldsPhrase(text) == Contains(ToUpper(text), <<"READY", " ", "TO", " ", "GENERATE">>)

EnumeratedProfileAlone ==
    /\ sel # NoSelection
    /\ sel[1].ProfileID \in Range(extractProfileIDs)
    /\ sel[1].AddonIDs = << >>
    /\ sel[1].AssetIDs = << >>
    /\ sel[1].Confidence >= confidenceThreshold

\* C26: a Selection that names a profile ID enumerated by the extraction
\* instruction, no addons and no assets, with a confidence at or above the
\* threshold, gets no issue from ValidateSelectionCompatibility, is resolved
\* by resolveContextAssets, and passes the gates of GenerateFiles; the profile
\* is known to the validator and has its profile.<id> entry in the catalog.
C26_EnumeratedProfilesAccepted ==
    EnumeratedProfileAlone =>
        /\ pc = "ValidateReturned" => issues = << >>
        /\ pc = "ResolveReturned" => assets.ok
        /\ pc \in InGenerate =>
              /\ issues = << >>
              /\ assets.ok
              /\ Len(calls) = 1

\* C27: resolveContextAssets succeeds on every Selection for which
\* ValidateSelectionCompatibility returns no issue, and GenerateFiles never
\* fails with a "resolving assets" error, the validator having passed the
\* Selection before the resolver is called.
C27_ValidationImpliesResolvable ==
    /\ (pc = "ResolveReturned" /\ ValidateSelectionCompatibility(sel[1]) = << >>) => assets.ok
    /\ pc = "GenerateReturned" => ~HasPrefix(genRes.err, <<"resolving assets: ">>)

\* the Chat calls that reached Provider.Send
ChatSends == SelectSeq(calls, LAMBDA c : c.op = "Chat")

\* every Chat call that reached the Provider carried a non-blank message and
\* the conversation system prompt
ChatSendsCarryPrompt ==
    /\ conversationSystemPrompt # EmptyStr
    /\ \A i \in DOMAIN ChatSends :
          /\ ChatSends[i].instructions = conversationSystemPrompt
          /\ TrimSpace(ChatSends[i].input) # EmptyStr

\* a step of Engine.Chat: a non-blank message goes to Provider.Send with the
\* system prompt, a blank one ends in the error "empty message" and leaves the
\* Provider untouched
ChatStep ==
    userInput' # userInput \/ turns' # turns \/ err' # err =>
        LET message == userInput'[1] IN
        IF TrimSpace(message) = EmptyStr
        THEN /\ err' = <<"empty message">>
             /\ calls' = calls
             /\ sendLog' = sendLog
             /\ attempt' = attempt
             /\ pc' = "Failed"
        ELSE /\ calls' = Append(calls, [op |-> "Chat", input |-> message,
                                        instructions |-> conversationSystemPrompt,
                                        previous_response_id |-> previousResponseID])
             /\ pc' = "Sending"
             /\ err' = err

C29_OutputContainment ==
    \A i \in DOMAIN written : HasPrefix(written[i].Path, outputPath \o <<"/">>)

\* a step leaves the Selection as it was
SelectionKept == sel' = sel

\* a validator call changes nothing but what it returns
ValidatorPure ==
    Validate =>
        UNCHANGED <<sel, assets, resolverCalls, calls, op, attempt, sendLog,
                    previousResponseID, cancelled, parseInput, parseResult, sendRes, reply,
                    userInput, turns, genRes, pending, written, err>>

\* what GenerateFiles did up to its Provider call is what its gates yield for
\* the Selection alone, whatever validator calls came before the run
RunDependsOnSelectionOnly ==
    pc \in InGenerate =>
        LET g == generateGate(projectName, sel) IN
        IF g.ok
        THEN /\ calls = << [op |-> "Generate", input |-> g.prompt, instructions |-> EmptyStr,
                            previous_response_id |-> ""] >>
             /\ assets = resolveContextAssets(sel[1])
        ELSE /\ pc = "GenerateReturned"
             /\ genRes = [ok |-> FALSE, files |-> << >>, err |-> g.err]
             /\ calls = << >>

\* C30: no step of ValidateSelectionCompatibility, resolveContextAssets or
\* GenerateFiles changes the ProfileID, AddonIDs, AssetIDs or Confidence of the
\* Selection; a validator call changes no state beside the issue list it
\* returns; and a run of GenerateFiles does the same whether or not the
\* validator was called on the Selection before it, once or several times.
C30_SelectionImmutable ==
    /\ [][SelectionKept]_vars
    /\ [][ValidatorPure]_vars
    /\ []RunDependsOnSelectionOnly

\* a Selection with blank entries and a low confidence was previewed, issues
\* were found, and the run that followed failed at the confidence gate with
\* the Selection as it was
C30_Witness ==
    /\ pc = "GenerateReturned"
    /\ issues # << >>
    /\ sel[1].Confidence < confidenceThreshold
    /\ \E i \in DOMAIN sel[1].AddonIDs : sel[1].AddonIDs[i] = EmptyStr
    /\ HasPrefix(genRes.err, <<"confidence ">>)
    /\ resolverCalls = << >>

====
